---- MODULE Spec2Model ----
(***************************************************************************)
(* zod-mermaid: schema resolver, entity-graph builder and the three        *)
(* Mermaid emitters (mermaid-generator.ts, id-ref.ts, entity.ts,           *)
(* errors.ts).  Schemas are nodes of a heap addressed by identity; one     *)
(* call of generateMermaidDiagram or idRef is one step.                    *)
(***************************************************************************)
EXTENDS Integers, Sequences, FiniteSets, TLC

(* ---------------------------------------------------------------------- *)
(* Bounds                                                                 *)
(* ---------------------------------------------------------------------- *)

\* longest schema list a caller passes
MaxRoots == 2

\* the number of nodes a caller keeps from its idRef calls
MaxClones == 2

\* number of nested parseSchemaToEntities frames the call stack holds
StackLimit == 3

(* ---------------------------------------------------------------------- *)
(* String helpers (JavaScript String methods)                             *)
(* ---------------------------------------------------------------------- *)

charAt(s, i) == IF i >= 1 /\ i <= Len(s) THEN SubSeq(s, i, i) ELSE ""

slice(s, from) == IF from > Len(s) THEN "" ELSE SubSeq(s, from, Len(s))

startsWith(s, p) == Len(s) >= Len(p) /\ SubSeq(s, 1, Len(p)) = p

endsWith(s, p) == Len(s) >= Len(p) /\ SubSeq(s, Len(s) - Len(p) + 1, Len(s)) = p

includes(s, p) ==
    \E i \in 1..Len(s) : i + Len(p) - 1 <= Len(s) /\ SubSeq(s, i, i + Len(p) - 1) = p

LowerCase == "abcdefghijklmnopqrstuvwxyz"

UpperCase == "ABCDEFGHIJKLMNOPQRSTUVWXYZ"

isLetter(c) ==
    \E i \in 1..26 : charAt(LowerCase, i) = c \/ charAt(UpperCase, i) = c

toUpperCase(c) ==
    IF \E i \in 1..26 : charAt(LowerCase, i) = c
    THEN charAt(UpperCase, CHOOSE i \in 1..26 : charAt(LowerCase, i) = c)
    ELSE c

\* s.charAt(0).toUpperCase() + s.slice(1)
capitalize(s) == toUpperCase(charAt(s, 1)) \o slice(s, 2)

RECURSIVE replaceChar(_, _, _)
\* s.replace(/c/g, r) for a one-character pattern c
replaceChar(s, c, r) ==
    IF s = "" THEN ""
    ELSE (IF charAt(s, 1) = c THEN r ELSE charAt(s, 1)) \o replaceChar(slice(s, 2), c, r)

RECURSIVE joinTerminated(_, _)
\* every element followed by the separator, the last one included
joinTerminated(seq, sep) ==
    IF Len(seq) = 0 THEN "" ELSE seq[1] \o sep \o joinTerminated(Tail(seq), sep)

RECURSIVE join(_, _)
\* Array.prototype.join
join(seq, sep) ==
    IF Len(seq) = 0 THEN ""
    ELSE IF Len(seq) = 1 THEN seq[1]
    ELSE seq[1] \o sep \o join(Tail(seq), sep)

\* is x an element of the sequence seq
Has(seq, x) == \E i \in 1..Len(seq) : seq[i] = x

\* number of elements of seq equal to x
Count(seq, x) == Cardinality({i \in 1..Len(seq) : seq[i] = x})

RECURSIVE SeqsUpTo(_, _)
\* all sequences over S of length at most n
SeqsUpTo(S, n) ==
    IF n = 0 THEN {<<>>}
    ELSE LET shorter == SeqsUpTo(S, n - 1)
         IN  shorter \cup {Append(q, x) : q \in {r \in shorter : Len(r) = n - 1}, x \in S}

(* ---------------------------------------------------------------------- *)
(* Errors (utils/errors.ts)                                               *)
(* ---------------------------------------------------------------------- *)

\* the classes whose instances satisfy `instanceof ZodMermaidError`
ZodMermaidErrorFamily ==
    {"ZodMermaidError", "SchemaParseError", "DiagramGenerationError", "ValidationError"}

\* the classes whose instances satisfy `instanceof Error`
ErrorClasses == ZodMermaidErrorFamily \cup {"Error", "TypeError", "RangeError"}

NoError == [class |-> "", message |-> ""]

\* new SchemaParseError(message, schema)
SchemaParseError(message) ==
    [class |-> "SchemaParseError", message |-> "Schema parsing error: " \o message]

\* a plain `new Error(message)` in the place of the DiagramGenerationError
DiagramGenerationErrorPlain(message) == [class |-> "Error", message |-> message]

\* new DiagramGenerationError(message, diagramType)
DiagramGenerationError(message) ==
    [class |-> "DiagramGenerationError", message |-> "Diagram generation error: " \o message]

\* a value thrown with `throw`; class "" stands for a thrown non-Error value
Thrown(class, message) == [class |-> class, message |-> message]

\* completion records of a function body: normal return or exception
Return(v) == [threw |-> FALSE, error |-> NoError, value |-> v]

Throw(e) == [threw |-> TRUE, error |-> e, value |-> <<>>]

\* two steps whose lists are joined in the opposite order
concatResultsSwapped(first, rest) ==
    IF first.threw THEN first
    ELSE IF rest.threw THEN rest
    ELSE Return(rest.value \o first.value)

\* two steps in sequence that each yield a list: the first exception aborts
concatResults(first, rest) ==
    IF first.threw THEN first
    ELSE IF rest.threw THEN rest
    ELSE Return(first.value \o rest.value)

\* try { step } catch { } around a step that yields a list
swallow(step) == IF step.threw THEN Return(<<>>) ELSE step

(* ---------------------------------------------------------------------- *)
(* Schema nodes (the host library's z.* values), addressed by identity    *)
(* ---------------------------------------------------------------------- *)

Blank ==
    [type |-> "", inner |-> "", shape |-> <<>>, options |-> <<>>, discriminator |-> "",
     values |-> <<>>, valueKind |-> "", keyType |-> "", valueType |-> "",
     getterThrows |-> FALSE, getterError |-> NoError,
     format |-> "", checkFormats |-> <<>>, hasMinLength |-> FALSE, minLength |-> 0,
     hasMaxLength |-> FALSE, maxLength |-> 0,
     hasMinValue |-> FALSE, minValue |-> 0, hasMaxValue |-> FALSE, maxValue |-> 0]

zString == [Blank EXCEPT !.type = "string"]

zNumber == [Blank EXCEPT !.type = "number"]

zBoolean == [Blank EXCEPT !.type = "boolean"]

zUuid == [Blank EXCEPT !.type = "string", !.format = "uuid"]

zStringMinMax(lo, hi) ==
    [Blank EXCEPT !.type = "string", !.hasMinLength = TRUE, !.minLength = lo,
                  !.hasMaxLength = TRUE, !.maxLength = hi]

zNumberMin(lo) == [Blank EXCEPT !.type = "number", !.hasMinValue = TRUE, !.minValue = lo]

zLiteral(v) == [Blank EXCEPT !.type = "literal", !.values = <<v>>, !.valueKind = "string"]

zEnum(vs) == [Blank EXCEPT !.type = "enum", !.values = vs]

zArray(el) == [Blank EXCEPT !.type = "array", !.inner = el]

zOptional(in) == [Blank EXCEPT !.type = "optional", !.inner = in]

zNullable(in) == [Blank EXCEPT !.type = "nullable", !.inner = in]

zDefault(in) == [Blank EXCEPT !.type = "default", !.inner = in]

zPipe(out) == [Blank EXCEPT !.type = "pipe", !.inner = out]

zLazy(target) == [Blank EXCEPT !.type = "lazy", !.inner = target]

zLazyThrowing(e) == [Blank EXCEPT !.type = "lazy", !.getterThrows = TRUE, !.getterError = e]

zRecord(k, v) == [Blank EXCEPT !.type = "record", !.keyType = k, !.valueType = v]

zUnion(opts) == [Blank EXCEPT !.type = "union", !.options = opts]

zDiscriminatedUnion(disc, opts) ==
    [Blank EXCEPT !.type = "union", !.discriminator = disc, !.options = opts]

F(key, value) == [key |-> key, value |-> value]

zObject(shape) == [Blank EXCEPT !.type = "object", !.shape = shape]

\* a value that is not a schema (null): it has no `def`
NotASchema == [Blank EXCEPT !.type = "<null>"]

NoMeta == [entityName |-> "", title |-> "", description |-> "", targetEntityName |-> ""]

describe(d) == [NoMeta EXCEPT !.description = d]

metaTitle(t) == [NoMeta EXCEPT !.title = t]

(* ---------------------------------------------------------------------- *)
(* idRef (id-ref.ts)                                                      *)
(* ---------------------------------------------------------------------- *)

\* `field in shape` / shape[field]
shapeHas(shape, key) == \E i \in 1..Len(shape) : shape[i].key = key

shapeGet(shape, key) == shape[CHOOSE i \in 1..Len(shape) : shape[i].key = key].value

\* the class of the error idRef throws for a missing key field (plain `new Error`)
IdRefErrorClass == "Error"

\* idRef(schema, idFieldName, entityName) over a heap `nodes` and a registry `reg`.
\* idFieldName = "" and entityName = "" stand for omitted arguments.  The result
\* is the tagged clone of the key field and the metadata attached to it.
idRef(nodes, reg, schema, idFieldName, entityName) ==
    LET shape == nodes[schema].shape
        field == IF idFieldName = "" THEN "id" ELSE idFieldName
    IN  IF ~shapeHas(shape, field)
        THEN Throw(Thrown(IdRefErrorClass, "ID field '" \o field \o "' not found in schema"))
        ELSE LET idFieldSchema == shapeGet(shape, field)
                 targetEntityName ==
                     IF entityName # "" THEN entityName
                     ELSE IF reg[schema].description # "" THEN reg[schema].description
                     ELSE "Unknown"
             IN  Return([node |-> nodes[idFieldSchema],
                         cloneOf |-> idFieldSchema,
                         meta |-> [NoMeta EXCEPT !.targetEntityName = targetEntityName]])

(* ---------------------------------------------------------------------- *)
(* The schemas callers build (tests and README of the repository)         *)
(* ---------------------------------------------------------------------- *)

BaseNodes ==
    ("string" :> zString) @@ ("number" :> zNumber) @@ ("boolean" :> zBoolean) @@
    ("uuid" :> zUuid) @@ ("name100" :> zStringMinMax(1, 100)) @@
    ("settingsRecord" :> zRecord("string", "boolean")) @@
    ("User" :> zObject(<<F("id", "uuid"), F("name", "name100")>>)) @@
    ("Product" :> zObject(<<F("id", "string"), F("price", "number")>>)) @@
    ("Account" :> zObject(<<F("id", "number"), F("settings", "settingsRecord")>>))

BaseRegistry ==
    [n \in DOMAIN BaseNodes |->
        IF n \in {"User", "Product", "Account"} THEN describe(n) ELSE NoMeta]

\* the tagged clones idRef returns for the three target schemas
RefNodes ==
    ("ref_User" :> idRef(BaseNodes, BaseRegistry, "User", "", "").value) @@
    ("ref_Product" :> idRef(BaseNodes, BaseRegistry, "Product", "", "").value) @@
    ("ref_Account" :> idRef(BaseNodes, BaseRegistry, "Account", "id", "").value)

PendingError == Thrown("Error", "Schema not ready")

PendingZodError == Thrown("ValidationError", "Validation error: not ready")

PendingValue == Thrown("", "not ready")

Nodes ==
    BaseNodes @@ [r \in DOMAIN RefNodes |-> RefNodes[r].node] @@
    ("null" :> NotASchema) @@
    ("opt_ref_User" :> zOptional("ref_User")) @@
    ("arr_ref_Product" :> zArray("ref_Product")) @@
    ("opt_arr_ref_Product" :> zOptional("arr_ref_Product")) @@
    ("Order" :> zObject(<<F("id", "string"), F("customerId", "ref_User"),
                          F("editorId", "opt_ref_User"),
                          F("productIds", "arr_ref_Product")>>)) @@
    ("Wishlist" :> zObject(<<F("ownerId", "ref_User"),
                             F("productIds", "opt_arr_ref_Product")>>)) @@
    ("Invoice" :> zObject(<<F("id", "string"), F("accountId", "ref_Account")>>)) @@
    ("lazy_Directory" :> zLazy("Directory")) @@
    ("arr_lazy_Directory" :> zArray("lazy_Directory")) @@
    ("opt_arr_lazy_Directory" :> zOptional("arr_lazy_Directory")) @@
    ("Directory" :> zObject(<<F("name", "string"), F("isDirectory", "boolean"),
                              F("children", "opt_arr_lazy_Directory")>>)) @@
    ("lazy_Folder" :> zLazy("Folder")) @@
    ("arr_lazy_Folder" :> zArray("lazy_Folder")) @@
    ("Folder" :> zObject(<<F("name", "string"), F("items", "arr_lazy_Folder")>>)) @@
    ("lazy_TreeNode" :> zLazy("TreeNode")) @@
    ("opt_lazy_TreeNode" :> zOptional("lazy_TreeNode")) @@
    ("TreeNode" :> zObject(<<F("value", "string"), F("parent", "opt_lazy_TreeNode")>>)) @@
    ("lazy_Category" :> zLazy("Category")) @@
    ("Category" :> zObject(<<F("name", "string"), F("parent", "lazy_Category")>>)) @@
    ("lazy_pending" :> zLazyThrowing(PendingError)) @@
    ("lazy_pendingZod" :> zLazyThrowing(PendingZodError)) @@
    ("lazy_pendingValue" :> zLazyThrowing(PendingValue)) @@
    ("Pending" :> zObject(<<F("name", "string"), F("next", "lazy_pending")>>)) @@
    ("PendingZod" :> zObject(<<F("name", "string"), F("next", "lazy_pendingZod")>>)) @@
    ("PendingValue" :> zObject(<<F("name", "string"), F("next", "lazy_pendingValue")>>)) @@
    ("lit_success" :> zLiteral("success")) @@ ("lit_error" :> zLiteral("error")) @@
    ("ResultOk" :> zObject(<<F("status", "lit_success"), F("data", "string")>>)) @@
    ("ResultErr" :> zObject(<<F("status", "lit_error"), F("message", "string"),
                              F("reporterId", "ref_User")>>)) @@
    ("Result" :> zDiscriminatedUnion("status", <<"ResultOk", "ResultErr">>)) @@
    ("Address" :> zObject(<<F("street", "string"), F("courierId", "ref_User")>>)) @@
    ("Shipment" :> zObject(<<F("id", "string"), F("address", "Address")>>)) @@
    ("Recipient" :> zObject(<<F("name", "string"), F("contactId", "ref_User")>>)) @@
    ("Parcel" :> zObject(<<F("id", "string"), F("sender", "Address"),
                           F("recipient", "Recipient")>>)) @@
    ("Contact" :> zObject(<<F("phone", "string")>>)) @@
    ("opt_Contact" :> zOptional("Contact")) @@
    ("lit_email" :> zLiteral("email")) @@ ("lit_sms" :> zLiteral("sms")) @@
    ("lit_push" :> zLiteral("push")) @@
    ("NoticeEmail" :> zObject(<<F("kind", "lit_email"), F("sender", "opt_Contact")>>)) @@
    ("NoticeSms" :> zObject(<<F("kind", "lit_sms"), F("number", "string")>>)) @@
    ("NoticePush" :> zObject(<<F("kind", "lit_push"), F("token", "string")>>)) @@
    ("Notice" :> zDiscriminatedUnion("kind", <<"NoticeEmail", "NoticeSms", "NoticePush">>)) @@
    ("lazy_User" :> zLazy("User")) @@
    ("Team" :> zObject(<<F("name", "string"), F("lead", "lazy_User")>>)) @@
    ("opt_string" :> zOptional("string")) @@
    ("nullable_string" :> zNullable("string")) @@
    ("nullable_opt_string" :> zNullable("opt_string")) @@
    ("pipe_opt_string" :> zPipe("opt_string")) @@
    ("default_number" :> zDefault("number")) @@
    ("nullable_default_number" :> zNullable("default_number")) @@
    ("Profile" :> zObject(<<F("name", "string"), F("nickname", "nullable_opt_string"),
                            F("alias", "pipe_opt_string"), F("bio", "nullable_string"),
                            F("motto", "opt_string"), F("age", "default_number"),
                            F("rank", "nullable_default_number")>>)) @@
    ("title_0_20" :> zStringMinMax(0, 20)) @@
    ("code_3_0" :> zStringMinMax(3, 0)) @@
    ("Note" :> zObject(<<F("title", "title_0_20"), F("code", "code_3_0"),
                         F("author", "name100")>>))

\* the metadata registry (z.globalRegistry) after the schemas were built
Registry ==
    [n \in DOMAIN Nodes |->
        IF n \in DOMAIN RefNodes THEN RefNodes[n].meta
        ELSE IF n \in {"User", "Product", "Account", "Order", "Wishlist", "Invoice",
                       "Folder", "TreeNode", "Category", "Pending", "PendingZod",
                       "PendingValue", "Result", "Shipment", "Parcel", "Notice",
                       "Team", "Profile", "Note"}
             THEN describe(n)
        ELSE NoMeta]

(* ---------------------------------------------------------------------- *)
(* State                                                                  *)
(* ---------------------------------------------------------------------- *)

VARIABLES
    heap,       \* the schema objects that exist, by identity
    registry,   \* the metadata registry (z.globalRegistry): schema -> metadata
    call,       \* the last call of the public API: its arguments and its outcome
    memo        \* the outcome of the first call made with each of the Probes

vars == <<heap, registry, call, memo>>

\* registry.get(schema)
registryGet(schema) == registry[schema]

\* the values a caller passes as a root
Roots ==
    {"User", "Product", "Account", "Order", "Wishlist", "Invoice", "Directory", "Folder",
     "TreeNode", "Category", "Pending", "PendingZod", "PendingValue", "Result",
     "Shipment", "Parcel", "Notice", "string", "null"}

\* the roots callers combine in lists of two and more
ListRoots == {"User", "Order"}

\* the lists in which one element is not a schema
NullLists == {<<"User", "null">>, <<"null", "Order">>}

(* ---------------------------------------------------------------------- *)
(* entity.ts                                                              *)
(* ---------------------------------------------------------------------- *)

removeWhitespace(str) == replaceChar(str, " ", "-")

\* getEntityName(schema, registry, parentFieldName); "" is `undefined`
getEntityName(schema, parentFieldName) ==
    LET meta == registryGet(schema)
    IN  IF meta.entityName # "" THEN meta.entityName
        ELSE IF meta.title # "" THEN removeWhitespace(meta.title)
        ELSE IF meta.description # "" THEN removeWhitespace(meta.description)
        ELSE IF parentFieldName # "" THEN capitalize(parentFieldName)
        ELSE ""

(* ---------------------------------------------------------------------- *)
(* mermaid-generator.ts: type renderer, optionality, validations          *)
(* ---------------------------------------------------------------------- *)

PrimitiveTypes ==
    {"string", "number", "bigint", "boolean", "date", "symbol", "null", "undefined"}

\* a lazy short-circuit that ignores the enclosing entity
lazyObjectTypeGeneric(entityName) == "Entity"

\* the display type of a lazy node that resolves to an object: the enclosing entity
lazyObjectType(entityName) == IF entityName # "" THEN entityName ELSE "Entity"

RECURSIVE getFieldType(_, _, _)
getFieldType(schema, fieldName, entityName) ==
    LET def == heap[schema]
        type == def.type
    IN  IF type \in PrimitiveTypes THEN type
        ELSE IF type = "array" THEN getFieldType(def.inner, fieldName, entityName) \o "[]"
        ELSE IF type = "object" THEN
            LET n == getEntityName(schema, fieldName)
            IN  IF n # "" THEN n
                ELSE IF fieldName # "" THEN capitalize(fieldName) ELSE "Entity"
        ELSE IF type = "enum" THEN "string"
        ELSE IF type = "literal" THEN def.valueKind
        ELSE IF type = "record" THEN
            "Record<" \o getFieldType(def.keyType, fieldName, entityName) \o ", "
                \o getFieldType(def.valueType, fieldName, entityName) \o ">"
        ELSE IF type = "map" THEN
            "Map<" \o getFieldType(def.keyType, fieldName, entityName) \o ", "
                \o getFieldType(def.valueType, fieldName, entityName) \o ">"
        ELSE IF type = "set" THEN
            "Set<" \o getFieldType(def.valueType, fieldName, entityName) \o ">"
        ELSE IF type = "promise" THEN
            "Promise<" \o (IF def.inner # ""
                           THEN getFieldType(def.inner, fieldName, entityName)
                           ELSE "unknown") \o ">"
        ELSE IF type = "tuple" THEN
            "[" \o join([i \in 1..Len(def.options) |->
                            getFieldType(def.options[i], fieldName, entityName)], ", ") \o "]"
        ELSE IF type \in {"optional", "nullable", "default"} THEN
            getFieldType(def.inner, fieldName, entityName)
        ELSE IF type = "lazy" THEN
            IF def.getterThrows THEN "Entity"
            ELSE IF heap[def.inner].type = "object"
                 THEN lazyObjectType(entityName)
                 ELSE getFieldType(def.inner, fieldName, entityName)
        ELSE IF type = "union" THEN
            IF def.discriminator # "" THEN
                LET n == getEntityName(schema, fieldName)
                IN  IF n # "" THEN n
                    ELSE IF fieldName # "" THEN capitalize(fieldName) ELSE "Union"
            ELSE IF Len(def.options) > 0
                 THEN join([i \in 1..Len(def.options) |->
                              getFieldType(def.options[i], fieldName, entityName)], " | ")
                 ELSE "union"
        ELSE IF type = "intersection" THEN
            getFieldType(def.keyType, fieldName, entityName) \o " & "
                \o getFieldType(def.valueType, fieldName, entityName)
        ELSE IF type = "pipe" THEN
            IF def.inner # "" THEN getFieldType(def.inner, fieldName, entityName)
            ELSE "unknown"
        ELSE "unknown"

RECURSIVE isFieldOptional(_)
isFieldOptional(schema) ==
    LET def == heap[schema]
    IN  IF def.type = "optional" THEN TRUE
        ELSE IF def.type = "default" THEN TRUE
        ELSE IF def.type = "lazy" THEN
            (IF def.getterThrows THEN FALSE ELSE isFieldOptional(def.inner))
        ELSE FALSE

\* the labels of one core node (no wrapper, no array)
coreValidation(schema) ==
    LET def == heap[schema]
        type == def.type
        meta == registryGet(schema)
    IN  IF type = "string" THEN
            (IF meta.targetEntityName # "" THEN <<"ref: " \o meta.targetEntityName>> ELSE <<>>)
            \o (IF def.format = "email" THEN <<"email">> ELSE <<>>)
            \o (IF def.format = "uuid" THEN <<"uuid">> ELSE <<>>)
            \o (IF def.format = "url" THEN <<"url">> ELSE <<>>)
            \o (IF Has(def.checkFormats, "email") THEN <<"email">> ELSE <<>>)
            \o (IF Has(def.checkFormats, "uuid") THEN <<"uuid">> ELSE <<>>)
            \o (IF Has(def.checkFormats, "url") THEN <<"url">> ELSE <<>>)
            \o (IF def.hasMinLength
                THEN <<"min: " \o ToString(IF def.minLength = 0 THEN 1 ELSE def.minLength)>>
                ELSE <<>>)
            \o (IF def.hasMaxLength
                THEN <<"max: " \o ToString(IF def.maxLength = 0 THEN 100 ELSE def.maxLength)>>
                ELSE <<>>)
        ELSE IF type = "number" THEN
            (IF def.hasMinValue
             THEN (IF def.minValue = 0 THEN <<"positive">>
                   ELSE <<"min: " \o ToString(def.minValue)>>)
             ELSE <<>>)
            \o (IF def.hasMaxValue THEN <<"max: " \o ToString(def.maxValue)>> ELSE <<>>)
        ELSE IF type = "enum" THEN <<"enum: " \o join(def.values, ", ")>>
        ELSE IF type = "union" /\ def.discriminator = "" THEN
            (IF Len(def.options) > 0
                /\ \A i \in 1..Len(def.options) : heap[def.options[i]].type = "literal"
             THEN <<"enum: " \o join([i \in 1..Len(def.options) |->
                                        heap[def.options[i]].values[1]], ", ")>>
             ELSE <<>>)
        ELSE IF type = "literal" THEN <<"literal: " \o def.values[1]>>
        ELSE <<>>

RECURSIVE getFieldValidation(_)
\* returns a completion record: the unguarded unwrap() of a lazy node may throw
getFieldValidation(schema) ==
    LET def == heap[schema]
        type == def.type
    IN  IF type \in {"optional", "nullable", "default"} THEN getFieldValidation(def.inner)
        ELSE IF type = "lazy" THEN
            (IF def.getterThrows THEN Throw(def.getterError)
             ELSE getFieldValidation(def.inner))
        ELSE IF type = "pipe" /\ def.inner # "" THEN getFieldValidation(def.inner)
        ELSE IF type = "array" THEN getFieldValidation(def.inner)
        ELSE Return(coreValidation(schema))

(* ---------------------------------------------------------------------- *)
(* mermaid-generator.ts: entity graph builder                             *)
(* ---------------------------------------------------------------------- *)

SchemaField(name, type, isOptional, validation, isIdReference, referencedEntity) ==
    [name |-> name, type |-> type, isOptional |-> isOptional, validation |-> validation,
     isIdReference |-> isIdReference, referencedEntity |-> referencedEntity]

SchemaEntity(name, fields) ==
    [name |-> name, fields |-> fields, hasUnion |-> FALSE, subtypes |-> <<>>]

UnionEntity(name, fields, subtypes) ==
    [name |-> name, fields |-> fields, hasUnion |-> TRUE, subtypes |-> subtypes]

\* entities.find(e => e.name === name) is defined
findEntity(entities, name) == \E i \in 1..Len(entities) : entities[i].name = name

\* the reference target of a field of an object shape ("" when it is not an ID
\* reference): direct, under one optional layer, or as the element of an array
referenceOf(fieldSchema, fieldType, isOptional) ==
    LET def == heap[fieldSchema]
    IN  IF fieldType = "string" /\ registryGet(fieldSchema).targetEntityName # ""
        THEN registryGet(fieldSchema).targetEntityName
        ELSE IF isOptional /\ def.type = "optional"
        THEN (IF heap[def.inner].type = "string"
                  /\ registryGet(def.inner).targetEntityName # ""
              THEN registryGet(def.inner).targetEntityName ELSE "")
        ELSE IF def.type = "array"
        THEN (IF heap[def.inner].type = "string"
                  /\ registryGet(def.inner).targetEntityName # ""
              THEN registryGet(def.inner).targetEntityName ELSE "")
        ELSE ""

\* one element of the `fields` map of an object shape
objectField(key, fieldSchema, entityName) ==
    LET fieldType == getFieldType(fieldSchema, key, entityName)
        isOptional == isFieldOptional(fieldSchema)
        validation == getFieldValidation(fieldSchema)
        referencedEntity == referenceOf(fieldSchema, fieldType, isOptional)
    IN  IF validation.threw THEN Throw(validation.error)
        ELSE Return(SchemaField(key, fieldType, isOptional, validation.value,
                                referencedEntity # "", referencedEntity))

\* one element of the `optionFields` map of a union option
optionField(key, fieldSchema, optionEntityName) ==
    LET validation == getFieldValidation(fieldSchema)
    IN  IF validation.threw THEN Throw(validation.error)
        ELSE Return(SchemaField(key, getFieldType(fieldSchema, key, optionEntityName),
                                isFieldOptional(fieldSchema), validation.value, FALSE, ""))

\* Array.prototype.map over completion records: the first exception aborts the map
mapResults(rs) ==
    IF \E i \in 1..Len(rs) : rs[i].threw
    THEN Throw(rs[CHOOSE i \in 1..Len(rs) :
                     rs[i].threw /\ \A j \in 1..(i - 1) : ~rs[j].threw].error)
    ELSE Return([i \in 1..Len(rs) |-> rs[i].value])

RECURSIVE collectReferences(_, _)
\* the idReferences Set (insertion ordered) filled while the fields are mapped
collectReferences(fields, acc) ==
    IF Len(fields) = 0 THEN acc
    ELSE collectReferences(Tail(fields),
            IF fields[1].isIdReference /\ fields[1].referencedEntity # ""
               /\ ~Has(acc, fields[1].referencedEntity)
            THEN Append(acc, fields[1].referencedEntity) ELSE acc)

RECURSIVE peelWrappers(_)
\* the unwrap loop over optional, nullable and default
peelWrappers(schema) ==
    IF heap[schema].type \in {"optional", "nullable", "default"}
    THEN peelWrappers(heap[schema].inner) ELSE schema

isDiscriminatedUnion(schema) ==
    heap[schema].type = "union" /\ heap[schema].discriminator # ""

\* discField?.def?.values?.[0] of a union option; "" is `undefined`
discriminatorValueOf(option, discriminator) ==
    IF shapeHas(heap[option].shape, discriminator)
       /\ Len(heap[shapeGet(heap[option].shape, discriminator)].values) > 0
    THEN heap[shapeGet(heap[option].shape, discriminator)].values[1]
    ELSE ""

\* no placeholder entities: the list as the traversal left it
addPlaceholdersNone(entities, idReferences) == entities

RECURSIVE addPlaceholders(_, _)
\* placeholder entities for the ID references that are not in `entities`
addPlaceholders(entities, idReferences) ==
    IF Len(idReferences) = 0 THEN entities
    ELSE addPlaceholders(
            IF findEntity(entities, idReferences[1]) THEN entities
            ELSE Append(entities, SchemaEntity(idReferences[1], <<>>)),
            Tail(idReferences))

\* an entity list that lives outside the function and is never reset
keptEntities(left) == left

\* `const entities = []` and `new Set()` of a parseSchemaToEntities frame; the
\* argument is what the previous call of generateMermaidDiagram left behind
newEntities(left) == <<>>

\* a reference set that already holds a name when the frame starts
seededIdReferences(left) == <<"Unknown">>

newIdReferences(left) == <<>>

StackOverflow == Thrown("RangeError", "Maximum call stack size exceeded")

NullDeref == Thrown("TypeError", "Cannot read properties of null (reading 'def')")

RECURSIVE parseSchemaToEntities(_, _, _, _, _)
RECURSIVE parseNested(_, _, _, _, _)
RECURSIVE parseOptionNested(_, _, _, _, _, _)
RECURSIVE parseOptions(_, _, _, _, _, _)

\* the loop "Recursively parse nested objects and unions" from field i on
parseNested(shape, i, options, depth, left) ==
    IF i > Len(shape) THEN Return(<<>>)
    ELSE
    LET key == shape[i].key
        fieldSchema == peelWrappers(shape[i].value)
        def == heap[fieldSchema]
        nested ==
            IF def.type = "object" \/ isDiscriminatedUnion(fieldSchema)
            THEN parseSchemaToEntities(fieldSchema, options, key, depth + 1, left)
            ELSE IF def.type = "lazy" THEN
                (IF def.getterThrows THEN Return(<<>>)
                 ELSE IF heap[def.inner].type = "object" \/ isDiscriminatedUnion(def.inner)
                 THEN swallow(parseSchemaToEntities(def.inner, options, key, depth + 1, left))
                 ELSE Return(<<>>))
            ELSE Return(<<>>)
    IN  concatResults(nested, parseNested(shape, i + 1, options, depth, left))

\* the loop "Recursively parse nested objects in the option" from field i on
parseOptionNested(shape, i, discriminator, options, depth, left) ==
    IF i > Len(shape) THEN Return(<<>>)
    ELSE
    LET key == shape[i].key
        fieldSchema == shape[i].value
        def == heap[fieldSchema]
        nested ==
            IF key = discriminator THEN Return(<<>>)
            ELSE IF def.type = "object"
            THEN parseSchemaToEntities(fieldSchema, options, key, depth + 1, left)
            ELSE IF def.type = "lazy" THEN
                (IF def.getterThrows THEN Return(<<>>)
                 ELSE IF heap[def.inner].type = "object"
                 THEN swallow(parseSchemaToEntities(def.inner, options, key, depth + 1, left))
                 ELSE Return(<<>>))
            ELSE Return(<<>>)
    IN  concatResults(nested,
                      parseOptionNested(shape, i + 1, discriminator, options, depth, left))

\* the `optionFields` map over the entries the filter kept
optionFieldsOf(kept, optionEntityName) ==
    mapResults([k \in 1..Len(kept) |->
                  optionField(kept[k].key, kept[k].value, optionEntityName)])

\* what one union option adds: its entity, its nested entities, its subtype
\* record, then what the options after it add
optionEntities(name, discriminatorValue, optionFields, nested, rest) ==
    IF optionFields.threw THEN optionFields
    ELSE IF nested.threw THEN nested
    ELSE IF rest.threw THEN rest
    ELSE Return([entities |->
                    <<SchemaEntity(name, optionFields.value)>>
                        \o nested.value \o rest.value.entities,
                 subtypes |->
                    <<[name |-> name, discriminatorValue |-> discriminatorValue]>>
                        \o rest.value.subtypes])

\* optionEntityName: getEntityName(...) || `${unionEntityName}_${discriminatorValue}`
optionNameOf(declared, unionEntityName, discriminatorValue) ==
    IF declared # "" THEN declared ELSE unionEntityName \o "_" \o discriminatorValue

\* the loop "Parse each union option as a separate entity" from option i on;
\* returns the entities pushed and the subtypes recorded
parseOptions(unionOptions, i, unionEntityName, discriminator, optDepth, left) ==
    IF i > Len(unionOptions) THEN Return([entities |-> <<>>, subtypes |-> <<>>])
    ELSE IF heap[unionOptions[i]].type # "object"
    THEN parseOptions(unionOptions, i + 1, unionEntityName, discriminator, optDepth, left)
    ELSE LET optionEntityName ==
                 optionNameOf(getEntityName(unionOptions[i], ""), unionEntityName,
                              discriminatorValueOf(unionOptions[i], discriminator))
         IN  optionEntities(
                 optionEntityName,
                 discriminatorValueOf(unionOptions[i], discriminator),
                 optionFieldsOf(SelectSeq(heap[unionOptions[i]].shape,
                                          LAMBDA f : f.key # discriminator),
                                optionEntityName),
                 parseOptionNested(heap[unionOptions[i]].shape, 1, discriminator,
                                   optDepth.options, optDepth.depth, left),
                 parseOptions(unionOptions, i + 1, unionEntityName, discriminator,
                              optDepth, left))

\* getEntityName(...) || options.entityName
nameOr(named, entityName) == IF named # "" THEN named ELSE entityName

\* the try/catch around the unwrapping of a top-level lazy schema
resolvedOr(resolved, entities) == IF resolved.threw THEN Return(entities) ELSE resolved

\* the object branch once the fields are mapped and the nested schemas parsed
objectEntities(entities, idReferences, entityName, fields, nested) ==
    IF fields.threw THEN fields
    ELSE IF nested.threw THEN nested
    ELSE Return(addPlaceholders(
            Append(entities, SchemaEntity(entityName, fields.value)) \o nested.value,
            collectReferences(fields.value, idReferences)))

\* the discriminator field with the value of the first option only
discriminatorFieldFirstOnly(def) ==
    SchemaField(def.discriminator, "string", FALSE,
                <<"enum: " \o discriminatorValueOf(def.options[1], def.discriminator)>>,
                FALSE, "")

\* the discriminator field of the base entity of a discriminated union
discriminatorFieldOf(def) ==
    SchemaField(def.discriminator, "string", FALSE,
                <<"enum: " \o join([i \in 1..Len(def.options) |->
                                       discriminatorValueOf(def.options[i],
                                                            def.discriminator)], ", ")>>,
                FALSE, "")

\* the discriminated union branch once the options are parsed
unionEntities(entities, idReferences, unionEntityName, discriminatorField, parsed) ==
    IF parsed.threw THEN parsed
    ELSE Return(addPlaceholders(
            Append(entities, UnionEntity(unionEntityName, <<discriminatorField>>,
                                         parsed.value.subtypes))
                \o parsed.value.entities,
            idReferences))

\* parseSchemaToEntities(schema, options, registry, parentFieldName); depth is the
\* number of frames of this function on the call stack
parseSchemaToEntities(schema, options, parentFieldName, depth, left) ==
    LET def == heap[schema]
        entities0 == newEntities(left.entities)
        idReferences0 == newIdReferences(left.idReferences)
    IN  IF depth > StackLimit THEN Throw(StackOverflow)
        ELSE IF def.type = "<null>" THEN Throw(NullDeref)
        ELSE IF def.type = "lazy" THEN
            (IF def.getterThrows THEN Return(entities0)
             ELSE resolvedOr(parseSchemaToEntities(def.inner, options, parentFieldName,
                                                   depth + 1, left),
                             entities0))
        ELSE IF def.type = "object" THEN
            objectEntities(
                entities0, idReferences0,
                nameOr(getEntityName(schema, parentFieldName), options.entityName),
                mapResults([i \in 1..Len(def.shape) |->
                    objectField(def.shape[i].key, def.shape[i].value,
                                nameOr(getEntityName(schema, parentFieldName),
                                       options.entityName))]),
                parseNested(def.shape, 1, options, depth, left))
        ELSE IF isDiscriminatedUnion(schema) THEN
            unionEntities(
                entities0, idReferences0,
                nameOr(getEntityName(schema, parentFieldName), options.entityName),
                discriminatorFieldOf(def),
                parseOptions(def.options, 1,
                             nameOr(getEntityName(schema, parentFieldName),
                                    options.entityName),
                             def.discriminator,
                             [options |-> options, depth |-> depth], left))
        ELSE Return(addPlaceholders(entities0, idReferences0))

(* ---------------------------------------------------------------------- *)
(* mermaid-generator.ts: the three emitters                               *)
(* ---------------------------------------------------------------------- *)

RECURSIVE flatten(_)
\* concatenation of a sequence of sequences
flatten(seqs) == IF Len(seqs) = 0 THEN <<>> ELSE seqs[1] \o flatten(Tail(seqs))

\* length of the longest prefix of letters of s
letterPrefix(s) ==
    IF \E k \in 1..Len(s) : ~isLetter(charAt(s, k))
    THEN (CHOOSE k \in 1..Len(s) :
             ~isLetter(charAt(s, k)) /\ \A j \in 1..(k - 1) : isLetter(charAt(s, j))) - 1
    ELSE Len(s)

\* fieldType.match(/^([A-Za-z]+)<(.+)>$/)
genericMatch(s) ==
    LET k == letterPrefix(s)
    IN  k >= 1 /\ charAt(s, k + 1) = "<" /\ endsWith(s, ">") /\ Len(s) >= k + 3

escapeLtGt(s) == replaceChar(replaceChar(s, "<", "&lt;"), ">", "&gt;")

escapeLtGtAmp(s) == replaceChar(escapeLtGt(s), "&", "&amp;")

\* the field type and the validation array of a field after the ER rewriting of
\* generic, tuple, union and intersection types (validation.unshift)
\* "Handle generic types": Name<params> becomes Name, the parameters a label
rewriteGeneric(view, k) ==
    IF genericMatch(view.fieldType)
    THEN [fieldType |-> SubSeq(view.fieldType, 1, k),
          validation |->
              <<"&lt;" \o escapeLtGt(SubSeq(view.fieldType, k + 2, Len(view.fieldType) - 1))
                  \o "&gt;">> \o view.validation]
    ELSE view

\* "Handle tuple types"
rewriteTuple(view) ==
    IF startsWith(view.fieldType, "[") /\ endsWith(view.fieldType, "]")
    THEN [fieldType |-> "Tuple",
          validation |-> <<escapeLtGtAmp(view.fieldType)>> \o view.validation]
    ELSE view

\* "Handle union types"
rewriteUnion(view) ==
    IF includes(view.fieldType, " | ")
    THEN [fieldType |-> "union",
          validation |-> <<escapeLtGtAmp(view.fieldType)>> \o view.validation]
    ELSE view

\* "Handle intersection types"
rewriteIntersection(view) ==
    IF includes(view.fieldType, " & ")
    THEN [fieldType |-> "intersection",
          validation |-> <<escapeLtGtAmp(view.fieldType)>> \o view.validation]
    ELSE view

erFieldView(field) ==
    rewriteIntersection(rewriteUnion(rewriteTuple(
        rewriteGeneric([fieldType |-> field.type, validation |-> field.validation],
                       letterPrefix(field.type)))))

\* a field once the ER emitter has printed it: `validation` is field.validation
\* itself, so every unshift of the rewriting stays in the field
erFieldAfter(field) == [field EXCEPT !.validation = erFieldView(field).validation]

\* the entity list once generateERDiagram has run (entities without fields are
\* skipped before their fields are looked at)
entitiesAfterER(entities) ==
    [e \in 1..Len(entities) |->
        [entities[e] EXCEPT !.fields =
            [f \in 1..Len(entities[e].fields) |-> erFieldAfter(entities[e].fields[f])]]]

\* the entity list once the emitter of mergedOptions.diagramType has run
entitiesAfterRender(entities, mergedOptions) ==
    IF mergedOptions.diagramType = "er" THEN entitiesAfterER(entities) ELSE entities

\* the line of one field: type, name and the quoted annotations
fieldLine(view, name, annotations) ==
    "        " \o view.fieldType \o " " \o name
        \o (IF Len(annotations) > 0 THEN " \"" \o join(annotations, ", ") \o "\"" ELSE "")

\* the annotations of a field: its validation when options.includeValidation
annotationsOf(view, options) ==
    IF options.includeValidation /\ Len(view.validation) > 0 THEN view.validation ELSE <<>>

erFieldLine(field, options) ==
    fieldLine(erFieldView(field), field.name, annotationsOf(erFieldView(field), options))

\* the block of an entity, written for an entity without fields as well
erEntityBlockAlways(entity, options) ==
    <<"    " \o entity.name \o " {">>
        \o [i \in 1..Len(entity.fields) |-> erFieldLine(entity.fields[i], options)]
        \o <<"    }">>

erEntityBlock(entity, options) ==
    IF Len(entity.fields) = 0 THEN <<>>
    ELSE <<"    " \o entity.name \o " {">>
            \o [i \in 1..Len(entity.fields) |-> erFieldLine(entity.fields[i], options)]
            \o <<"    }">>

\* the test "this field references another entity (embedded relationship)"
isEmbedded(entities, field) ==
    /\ findEntity(entities, field.type)
    /\ field.type \notin {"string", "number", "boolean", "date"}
    /\ ~endsWith(field.type, "[]")

\* the test "arrays of the same entity type"
isSelfArray(entities, entity, field) ==
    /\ endsWith(field.type, "[]")
    /\ LET baseType == SubSeq(field.type, 1, Len(field.type) - 2)
       IN  findEntity(entities, baseType) /\ baseType = entity.name

erRelation(from, relationshipType, to, label) ==
    "    " \o from \o " " \o relationshipType \o " " \o to \o " : \"" \o label \o "\""

\* the cardinality token of an ID reference field
idReferenceToken(field) ==
    IF endsWith(field.type, "[]") THEN "}o--o{"
    ELSE IF field.isOptional THEN "}o--o{" ELSE "}o--||"

erFieldRelations(entities, entity, field) ==
    (IF isEmbedded(entities, field)
     THEN <<erRelation(entity.name, IF field.isOptional THEN "||--o{" ELSE "||--||",
                       field.type, field.name)>>
     ELSE IF field.isIdReference /\ field.referencedEntity # ""
     THEN <<erRelation(entity.name, idReferenceToken(field), field.referencedEntity,
                       field.name)>>
     ELSE <<>>)
    \o (IF isSelfArray(entities, entity, field)
        THEN <<erRelation(entity.name, IF field.isOptional THEN "||--o{" ELSE "||--||",
                          entity.name, field.name)>>
        ELSE <<>>)

erRelationLines(entities) ==
    flatten([e \in 1..Len(entities) |->
        flatten([f \in 1..Len(entities[e].fields) |->
            erFieldRelations(entities, entities[e], entities[e].fields[f])])])

erUnionLines(entities) ==
    flatten([e \in 1..Len(entities) |->
        IF entities[e].hasUnion
        THEN [k \in 1..Len(entities[e].subtypes) |->
                erRelation(entities[e].name, "||--||", entities[e].subtypes[k].name,
                           entities[e].subtypes[k].discriminatorValue)]
        ELSE <<>>])

erLines(entities, options) ==
    <<"erDiagram">>
        \o flatten([e \in 1..Len(entities) |-> erEntityBlock(entities[e], options)])
        \o erRelationLines(entities)
        \o erUnionLines(entities)

generateERDiagram(entities, options) == join(erLines(entities, options), "\n")

classEntityBlock(entity) ==
    <<"    class " \o entity.name \o " {">>
        \o [i \in 1..Len(entity.fields) |->
              "        +" \o entity.fields[i].name \o ": " \o entity.fields[i].type]
        \o <<"    }">>

classFieldRelations(entities, entity, field) ==
    (IF isEmbedded(entities, field)
     THEN <<"    " \o entity.name \o " *-- " \o field.type \o " : " \o field.name>>
     ELSE IF field.isIdReference /\ field.referencedEntity # ""
     THEN <<"    " \o entity.name \o " --> " \o field.referencedEntity \o " : "
                \o field.name \o " (ref)">>
     ELSE <<>>)
    \o (IF isSelfArray(entities, entity, field)
        THEN <<"    " \o entity.name \o " *-- " \o entity.name \o " : " \o field.name>>
        ELSE <<>>)

classLines(entities) ==
    <<"classDiagram">>
        \o flatten([e \in 1..Len(entities) |-> classEntityBlock(entities[e])])
        \o flatten([e \in 1..Len(entities) |->
              flatten([f \in 1..Len(entities[e].fields) |->
                  classFieldRelations(entities, entities[e], entities[e].fields[f])])])
        \o flatten([e \in 1..Len(entities) |->
              IF entities[e].hasUnion
              THEN [k \in 1..Len(entities[e].subtypes) |->
                      "    " \o entities[e].name \o " <|-- " \o entities[e].subtypes[k].name
                          \o " : " \o entities[e].subtypes[k].discriminatorValue]
              ELSE <<>>])

generateClassDiagram(entities) == join(classLines(entities), "\n")

\* the lines of one field without the dotted line of a keyed reference
flowchartFieldLinesNoReference(entities, entity, field) ==
    LET fieldNode == entity.name \o "_" \o field.name \o "[\""
                        \o field.name \o ": " \o field.type \o "\"]"
    IN  <<"    " \o fieldNode, "    " \o entity.name \o " --> " \o fieldNode>>
        \o (IF isEmbedded(entities, field)
            THEN <<"    " \o fieldNode \o " --> " \o field.type>> ELSE <<>>)

flowchartFieldLines(entities, entity, field) ==
    LET fieldNode == entity.name \o "_" \o field.name \o "[\""
                        \o field.name \o ": " \o field.type \o "\"]"
    IN  <<"    " \o fieldNode, "    " \o entity.name \o " --> " \o fieldNode>>
        \o (IF isEmbedded(entities, field)
            THEN <<"    " \o fieldNode \o " --> " \o field.type>> ELSE <<>>)
        \o (IF field.isIdReference /\ field.referencedEntity # ""
            THEN <<"    " \o fieldNode \o " -.-> " \o field.referencedEntity>> ELSE <<>>)
        \o (IF isSelfArray(entities, entity, field)
            THEN <<"    " \o fieldNode \o " --> " \o entity.name>> ELSE <<>>)

flowchartLines(entities) ==
    <<"flowchart TD">>
        \o [e \in 1..Len(entities) |->
              "    " \o entities[e].name \o "[\"" \o entities[e].name \o "\"]"]
        \o flatten([e \in 1..Len(entities) |->
              flatten([f \in 1..Len(entities[e].fields) |->
                  flowchartFieldLines(entities, entities[e], entities[e].fields[f])])])
        \o flatten([e \in 1..Len(entities) |->
              IF entities[e].hasUnion
              THEN [k \in 1..Len(entities[e].subtypes) |->
                      "    " \o entities[e].name \o " -.-> " \o entities[e].subtypes[k].name]
              ELSE <<>>])

generateFlowchartDiagram(entities) == join(flowchartLines(entities), "\n")

(* ---------------------------------------------------------------------- *)
(* mermaid-generator.ts: generateMermaidDiagram                           *)
(* ---------------------------------------------------------------------- *)

DEFAULT_OPTIONS ==
    [diagramType |-> "er", includeValidation |-> TRUE, includeOptional |-> TRUE,
     entityName |-> "Entity"]

\* { ...DEFAULT_OPTIONS, ...options }
mergeOptions(options) == options @@ DEFAULT_OPTIONS

\* an argument that is one schema / an argument that is an array of schemas
Single(s) == [isArray |-> FALSE, schema |-> s, schemas |-> <<>>]

List(ss) == [isArray |-> TRUE, schema |-> "", schemas |-> ss]

\* the normalisation without the wrapping of a single schema
schemasOfArrayOnly(input) == input.schemas

\* Array.isArray(schema) ? schema : [schema]
schemasOf(input) == IF input.isArray THEN input.schemas ELSE <<input.schema>>

\* a loop that stops after the first root
parseAllFirstOnly(schemas, i, options, left) ==
    IF i > Len(schemas) THEN Return(<<>>)
    ELSE parseSchemaToEntities(schemas[i], options, "", 1, left)

RECURSIVE parseAll(_, _, _, _)
\* the loop "Parse each schema and collect all entities" from root i on
parseAll(schemas, i, options, left) ==
    IF i > Len(schemas) THEN Return(<<>>)
    ELSE concatResults(parseSchemaToEntities(schemas[i], options, "", 1, left),
                       parseAll(schemas, i + 1, options, left))

\* the switch over mergedOptions.diagramType
render(allEntities, mergedOptions) ==
    IF mergedOptions.diagramType = "er"
    THEN Return(generateERDiagram(allEntities, mergedOptions))
    ELSE IF mergedOptions.diagramType = "class"
    THEN Return(generateClassDiagram(allEntities))
    ELSE IF mergedOptions.diagramType = "flowchart"
    THEN Return(generateFlowchartDiagram(allEntities))
    ELSE Throw(DiagramGenerationError(
                  "Unsupported diagram type: " \o mergedOptions.diagramType))

\* a catch clause that wraps whatever it caught
rethrowWrapped(error) ==
    SchemaParseError("Failed to generate diagram: "
        \o (IF error.class \in ErrorClasses THEN error.message ELSE "Unknown error"))

\* the catch clause of generateMermaidDiagram
rethrow(error) ==
    IF error.class \in ZodMermaidErrorFamily THEN error
    ELSE SchemaParseError("Failed to generate diagram: "
            \o (IF error.class \in ErrorClasses THEN error.message ELSE "Unknown error"))

\* the record of one call: what was raised inside the try block, what the caller
\* gets (a returned text or an escaping error) and the entity list the call built
outcome(parsed, inner) ==
    [returned |-> ~inner.threw,
     text |-> IF inner.threw THEN "" ELSE inner.value,
     raised |-> inner.error,
     error |-> IF inner.threw THEN rethrow(inner.error) ELSE NoError,
     parsed |-> ~parsed.threw,
     allEntities |-> IF parsed.threw THEN <<>> ELSE parsed.value]

\* the try block after the parse loop: the switch runs when every root parsed
tryBlock(parsed, mergedOptions) ==
    outcome(parsed, IF parsed.threw THEN parsed ELSE render(parsed.value, mergedOptions))

generateMermaidDiagram(input, options, left) ==
    tryBlock(parseAll(schemasOf(input), 1, mergeOptions(options), left),
             mergeOptions(options))

(* ---------------------------------------------------------------------- *)
(* The callers: one step is one call of the public API                    *)
(* ---------------------------------------------------------------------- *)


DiagramTypes == {"er", "class", "flowchart", "invalid"}

\* the options records callers pass (omitted keys take their defaults)
OptionsRecords ==
    {[includeValidation |-> FALSE], [includeOptional |-> FALSE]}
    \cup {[diagramType |-> d] : d \in DiagramTypes}

\* the schema arguments callers pass
Inputs ==
    {Single(s) : s \in Roots}
    \cup {List(<<s>>) : s \in Roots}
    \cup {List(ss) : ss \in SeqsUpTo(ListRoots, MaxRoots) \cup NullLists}

\* the calls whose first outcome is remembered, to compare repetitions with
Probes ==
    {[input |-> Single("User"), options |-> [diagramType |-> "flowchart"]],
     [input |-> List(<<"Order", "User">>), options |-> [diagramType |-> "class"]]}

\* the schema arguments and options of the callers that repeat calls
RepeatRoots == {"User", "Order", "Wishlist", "TreeNode", "Pending", "null"}

RepeatListRoots == {"Order", "User"}

RepeatInputs ==
    {Single(s) : s \in RepeatRoots}
    \cup {List(ss) : ss \in SeqsUpTo(RepeatListRoots, MaxRoots)}

RepeatOptions == {[diagramType |-> d] : d \in {"er", "class", "flowchart"}}

Unseen == [seen |-> FALSE, others |-> FALSE]

\* the ID reference targets named by the fields of an entity list, in order
RECURSIVE referencesIn(_, _)
referencesIn(entities, acc) ==
    IF Len(entities) = 0 THEN acc
    ELSE referencesIn(Tail(entities), collectReferences(entities[1].fields, acc))

\* the collections the previous call of generateMermaidDiagram allocated
Left ==
    IF call.op = "generate"
    THEN [entities |-> call.out.allEntities,
          idReferences |-> referencesIn(call.out.allEntities, <<>>)]
    ELSE [entities |-> <<>>, idReferences |-> <<>>]

Init ==
    /\ heap = Nodes
    /\ registry = Registry
    /\ call = [op |-> "none"]
    /\ memo = [p \in Probes |-> Unseen]

\* the effect of one call of generateMermaidDiagram on `call`
Called(input, options, out) ==
    call' = [op |-> "generate", input |-> input, options |-> options, out |-> out]

Generate(input, options) ==
    /\ Called(input, options, generateMermaidDiagram(input, options, Left))
    /\ UNCHANGED <<heap, registry, memo>>

\* the same call made by a caller that remembers the first outcome of each probe
\* and whether another call was made since
GenerateRepeat(input, options) ==
    /\ Called(input, options, generateMermaidDiagram(input, options, Left))
    /\ memo' = [p \in Probes |->
                    IF p = [input |-> input, options |-> options]
                    THEN (IF memo[p].seen THEN memo[p]
                          ELSE [seen |-> TRUE, others |-> FALSE, out |-> call'.out])
                    ELSE (IF memo[p].seen THEN [memo[p] EXCEPT !.others = TRUE]
                          ELSE memo[p])]
    /\ UNCHANGED <<heap, registry>>

\* the schemas, key names and entity names idRef is called with
IdRefTargets == {"User", "Product", "Account", "Directory"}

IdRefKeys == {"", "id", "name", "sku"}

IdRefNames == {"", "MyCustomer"}

IdRef(schema, idFieldName, entityName) ==
    /\ call' = [op |-> "idRef", schema |-> schema, idFieldName |-> idFieldName,
                entityName |-> entityName,
                out |-> idRef(heap, registry, schema, idFieldName, entityName)]
    /\ UNCHANGED <<heap, registry, memo>>

Next ==
    \/ \E input \in Inputs, options \in OptionsRecords : Generate(input, options)
    \/ \E schema \in IdRefTargets, idFieldName \in IdRefKeys, entityName \in IdRefNames :
          IdRef(schema, idFieldName, entityName)

Spec == Init /\ [][Next]_vars

NextRepeat ==
    \/ \E input \in RepeatInputs, options \in RepeatOptions : GenerateRepeat(input, options)
    \/ \E schema \in IdRefTargets, idFieldName \in IdRefKeys, entityName \in IdRefNames :
          IdRef(schema, idFieldName, entityName)

SpecRepeat == Init /\ [][NextRepeat]_vars

\* ---- a caller that keeps the nodes idRef returns ----

KeptTargets == {"User", "Directory"}

KeptKeys == {"", "name"}

KeptOptions == {[diagramType |-> d] : d \in {"er", "class"}}

\* the nodes made by idRef since construction
Clones == {n \in DOMAIN heap : n \notin DOMAIN Nodes}

\* the identity of the n-th node idFieldSchema.clone() makes
cloneId(n) == "clone" \o ToString(n)

\* the tag written on the key field itself as well as on the clone
taggedInPlace(reg, fresh, idFieldSchema, meta) ==
    [reg EXCEPT ![idFieldSchema] = meta] @@ (fresh :> meta)

\* resultSchema = idFieldSchema.clone(); the tag is attached to resultSchema
tagged(reg, fresh, idFieldSchema, meta) == reg @@ (fresh :> meta)

\* the heap and the registry after idRef returned `result` as node `fresh`
idRefEffect(result, fresh) ==
    IF result.threw THEN UNCHANGED <<heap, registry>>
    ELSE /\ heap' = heap @@ (fresh :> result.value.node)
         /\ registry' = tagged(registry, fresh, result.value.cloneOf, result.value.meta)

\* idRef(schema, idFieldName, entityName) whose result the caller keeps
IdRefKept(schema, idFieldName, entityName) ==
    /\ Cardinality(Clones) < MaxClones
    /\ call' = [op |-> "idRef", schema |-> schema, idFieldName |-> idFieldName,
                entityName |-> entityName,
                out |-> idRef(heap, registry, schema, idFieldName, entityName),
                node |-> cloneId(Cardinality(Clones) + 1)]
    /\ idRefEffect(idRef(heap, registry, schema, idFieldName, entityName),
                   cloneId(Cardinality(Clones) + 1))
    /\ UNCHANGED memo

NextIdRef ==
    \/ \E schema \in KeptTargets, idFieldName \in KeptKeys, entityName \in IdRefNames :
          IdRefKept(schema, idFieldName, entityName)
    \/ \E schema \in KeptTargets, options \in KeptOptions : Generate(Single(schema), options)

SpecIdRef == Init /\ [][NextIdRef]_vars

\* ---- callers that pass the schemas with wrapped, deferred and bounded fields ----

FieldRoots ==
    {"Team", "Profile", "Note", "User", "Account", "Order", "Wishlist", "Invoice",
     "Directory", "Folder", "TreeNode", "Pending", "Result", "Notice", "Shipment",
     "Parcel", "string", "number", "opt_string", "arr_ref_Product", "opt_ref_User",
     "settingsRecord", "opt_Contact"}

FieldListRoots == {"string", "Order"}

FieldInputs ==
    {Single(s) : s \in FieldRoots}
    \cup {List(ss) : ss \in SeqsUpTo(FieldListRoots, MaxRoots)}

NextFields == \E input \in FieldInputs, options \in OptionsRecords : Generate(input, options)

SpecFields == Init /\ [][NextFields]_vars

TypeOK == call.op \in {"none", "generate", "idRef"}

(* ---------------------------------------------------------------------- *)
(* Properties                                                             *)
(* ---------------------------------------------------------------------- *)

RECURSIVE splitLines(_)
\* text.split('\n')
splitLines(text) ==
    IF ~includes(text, "\n") THEN <<text>>
    ELSE LET k == CHOOSE i \in 1..Len(text) :
                     charAt(text, i) = "\n" /\ \A j \in 1..(i - 1) : charAt(text, j) # "\n"
         IN  <<SubSeq(text, 1, k - 1)>> \o splitLines(slice(text, k + 1))

Generated == call.op = "generate"

Merged == mergeOptions(call.options)

OutLines == splitLines(call.out.text)

\* the name of the entity built from a root object schema
rootEntityName(schema) ==
    IF getEntityName(schema, "") # "" THEN getEntityName(schema, "") ELSE Merged.entityName

entityNames(entities) == [i \in 1..Len(entities) |-> entities[i].name]

ErTokens == {"||--||", "||--o{", "}o--||", "}o--o{"}

\* the ER relationship lines from `from` to `to` labelled `label`
relationLines(lines, from, to, label) ==
    {i \in 1..Len(lines) : \E tok \in ErTokens : lines[i] = erRelation(from, tok, to, label)}

isTagged(node) == registry[node].targetEntityName # ""

\* C1: generateMermaidDiagram(S, o) and generateMermaidDiagram([S], o) return the
\* same text (or both fail): a call with [S] that follows a call with S and the
\* same options has the same outcome.
C1_SingleArrayEquivalence ==
    [][(/\ call.op = "generate" /\ call'.op = "generate"
        /\ ~call.input.isArray
        /\ call'.input = List(<<call.input.schema>>)
        /\ call'.options = call.options)
       => (/\ call'.out.returned = call.out.returned
           /\ call'.out.text = call.out.text)]_vars

C1_Witness ==
    /\ Generated /\ call.input.isArray /\ Len(call.input.schemas) = 1
    /\ call.out.returned /\ Len(call.out.allEntities) >= 2

\* C2: a call repeated with the same schemas and options has the outcome of the
\* first such call (same text, or same error), whatever calls were made between.
C2_RepeatedCallsAgree ==
    Generated =>
        \A p \in Probes :
            (memo[p].seen /\ call.input = p.input /\ call.options = p.options)
            => (/\ call.out.returned = memo[p].out.returned
                /\ call.out.text = memo[p].out.text
                /\ call.out.error = memo[p].out.error
                /\ call.out.allEntities = memo[p].out.allEntities)

C2_Witness ==
    /\ Generated /\ call.out.returned
    /\ \E p \in Probes :
          memo[p].seen /\ memo[p].others /\ call.input = p.input /\ call.options = p.options

\* C3: when the input, or any element of the schema list, is not a schema, the
\* call fails with a SchemaParseError and returns no text.
C3_NonSchemaFails ==
    (Generated /\ \E i \in 1..Len(schemasOf(call.input)) :
                     heap[schemasOf(call.input)[i]].type = "<null>")
    => (~call.out.returned /\ call.out.text = "" /\ call.out.error.class = "SchemaParseError")

C3_Witness ==
    /\ Generated /\ call.input = List(<<"User", "null">>)
    /\ ~call.out.returned /\ call.out.error.class = "SchemaParseError"

\* C4: when every root parses and the diagram type is none of er, class and
\* flowchart, the call fails with a DiagramGenerationError whose message names
\* the diagram type, and returns no text.
C4_UnsupportedDiagramType ==
    (Generated /\ call.out.parsed /\ Merged.diagramType \notin {"er", "class", "flowchart"})
    => (/\ ~call.out.returned /\ call.out.text = ""
        /\ call.out.error.class = "DiagramGenerationError"
        /\ includes(call.out.error.message, Merged.diagramType))

C4_Witness ==
    /\ Generated /\ call.out.parsed /\ Len(call.out.allEntities) > 0
    /\ Merged.diagramType = "invalid" /\ call.out.error.class = "DiagramGenerationError"

\* C5: every error that escapes generateMermaidDiagram belongs to the
\* ZodMermaidError family: a ZodMermaidError raised inside escapes unchanged, any
\* other exception escapes as a SchemaParseError that carries the message of the
\* Error raised ("Unknown error" for a thrown value that is not an Error).
C5_ErrorsStayInFamily ==
    (Generated /\ ~call.out.returned)
    => (/\ call.out.error.class \in ZodMermaidErrorFamily
        /\ (call.out.raised.class \in ZodMermaidErrorFamily
            => call.out.error = call.out.raised)
        /\ (call.out.raised.class \notin ZodMermaidErrorFamily
            => (/\ call.out.error.class = "SchemaParseError"
                /\ includes(call.out.error.message,
                            IF call.out.raised.class \in ErrorClasses
                            THEN call.out.raised.message ELSE "Unknown error"))))

C5_Witness ==
    /\ Generated /\ ~call.out.returned
    /\ call.out.raised.class = "Error" /\ call.out.raised.message = "Schema not ready"
    /\ call.out.error.class = "SchemaParseError"

\* C6: idRef called with a key that is not a field of the target fails with a
\* ReferenceTagError, a member of the ZodMermaidError family, that names the key.
C6_MissingKeyRaisesReferenceTagError ==
    (call.op = "idRef"
        /\ ~shapeHas(heap[call.schema].shape,
                     IF call.idFieldName = "" THEN "id" ELSE call.idFieldName))
    => (/\ call.out.threw
        /\ call.out.error.class = "ReferenceTagError"
        /\ includes(call.out.error.message,
                    IF call.idFieldName = "" THEN "id" ELSE call.idFieldName))

\* the target of a field node that is idRef(T) or idRef(T).optional(), else ""
scalarReferenceTarget(node) ==
    IF isTagged(node) THEN registry[node].targetEntityName
    ELSE IF heap[node].type = "optional" /\ isTagged(heap[node].inner)
    THEN registry[heap[node].inner].targetEntityName
    ELSE ""

\* C7: in the ER output of an object schema, every field that is idRef(T) or
\* idRef(T).optional() has exactly one relationship line from the owning entity
\* to the target labelled with the field name; its token is }o--|| when the field
\* is required and }o--o{ when it is optional.
C7_ScalarReferenceCardinality ==
    (Generated /\ call.out.returned /\ Merged.diagramType = "er"
        /\ ~call.input.isArray /\ heap[call.input.schema].type = "object")
    => LET shape == heap[call.input.schema].shape
           owner == rootEntityName(call.input.schema)
       IN  \A i \in 1..Len(shape) :
              LET target == scalarReferenceTarget(shape[i].value)
                  token == IF heap[shape[i].value].type = "optional"
                           THEN "}o--o{" ELSE "}o--||"
              IN  target # ""
                  => (/\ Cardinality(relationLines(OutLines, owner, target, shape[i].key)) = 1
                      /\ Has(OutLines, erRelation(owner, token, target, shape[i].key)))

\* the target of a field node that is z.array(idRef(T)), optional or not, else ""
arrayReferenceTarget(node) ==
    LET array == IF heap[node].type = "optional" THEN heap[node].inner ELSE node
    IN  IF heap[array].type = "array" /\ isTagged(heap[array].inner)
        THEN registry[heap[array].inner].targetEntityName ELSE ""

\* C8: in the ER output of an object schema, every field that is an array of ID
\* references, required or optional, has a relationship line from the owning
\* entity to the target with token }o--o{.
C8_ArrayReferenceCardinality ==
    (Generated /\ call.out.returned /\ Merged.diagramType = "er"
        /\ ~call.input.isArray /\ heap[call.input.schema].type = "object")
    => LET shape == heap[call.input.schema].shape
           owner == rootEntityName(call.input.schema)
       IN  \A i \in 1..Len(shape) :
              arrayReferenceTarget(shape[i].value) # ""
              => Has(OutLines, erRelation(owner, "}o--o{",
                                          arrayReferenceTarget(shape[i].value), shape[i].key))

\* the schema of a call made with one root, alone or in a list of one
oneRoot == IF call.input.isArray THEN call.input.schemas[1] ELSE call.input.schema

hasOneRoot == Generated /\ (call.input.isArray => Len(call.input.schemas) = 1)

\* node is Array(Deferred(schema)), required or optional
isSelfArrayField(schema, node) ==
    LET array == IF heap[node].type = "optional" THEN heap[node].inner ELSE node
    IN  /\ heap[array].type = "array"
        /\ heap[heap[array].inner].type = "lazy"
        /\ ~heap[heap[array].inner].getterThrows
        /\ heap[heap[array].inner].inner = schema

\* C9: a schema with a field Array(Deferred(itself)), required or optional, is
\* built into exactly one Entity, and its ER output has a self-loop relationship
\* line labelled with the field name.
C9_SelfArrayOneEntity ==
    (hasOneRoot /\ heap[oneRoot].type = "object")
    => LET shape == heap[oneRoot].shape
           owner == rootEntityName(oneRoot)
       IN  \A i \in 1..Len(shape) :
              isSelfArrayField(oneRoot, shape[i].value)
              => (/\ call.out.parsed
                  /\ Count(entityNames(call.out.allEntities), owner) = 1
                  /\ Merged.diagramType = "er"
                     => (/\ call.out.returned
                         /\ Cardinality(relationLines(OutLines, owner, owner,
                                                      shape[i].key)) = 1))

C9_Witness ==
    /\ Generated /\ call.input = Single("Directory") /\ call.out.returned
    /\ Merged.diagramType = "er"
    /\ Has(OutLines, erRelation("Entity", "||--o{", "Entity", "children"))
    /\ Len(call.out.allEntities) = 1

\* node is Deferred(schema) under any stack of Optional, Nullable and Defaulted
isSelfField(schema, node) ==
    /\ heap[peelWrappers(node)].type = "lazy"
    /\ ~heap[peelWrappers(node)].getterThrows
    /\ heap[peelWrappers(node)].inner = schema

\* C10: a schema with a field that is Deferred(itself), wrapped or not, is built
\* into exactly one Entity.
C10_SelfReferenceOneEntity ==
    (hasOneRoot /\ heap[oneRoot].type = "object")
    => LET shape == heap[oneRoot].shape
       IN  \A i \in 1..Len(shape) :
              isSelfField(oneRoot, shape[i].value)
              => (/\ call.out.parsed
                  /\ Count(entityNames(call.out.allEntities), rootEntityName(oneRoot)) = 1)

\* the lines that start with prefix p
linesWithPrefix(lines, p) == {i \in 1..Len(lines) : startsWith(lines[i], p)}

\* the union-relationship token of the dialect in use
unionToken == CASE Merged.diagramType = "er" -> "||--||"
                [] Merged.diagramType = "class" -> "<|--"
                [] OTHER -> "-.->"

\* the union-relationship edge of the dialect in use from base to subtype
unionEdge(base, subtype) ==
    CASE Merged.diagramType = "er" ->
            erRelation(base, "||--||", subtype.name, subtype.discriminatorValue)
      [] Merged.diagramType = "class" ->
            "    " \o base \o " <|-- " \o subtype.name \o " : " \o subtype.discriminatorValue
      [] OTHER -> "    " \o base \o " -.-> " \o subtype.name

\* the literal an option declares for the discriminator key
declaredValue(option, discriminator) ==
    heap[shapeGet(heap[option].shape, discriminator)].values[1]

\* C11: a discriminated union root with N options is built into one base entity
\* whose single field has the enum validation listing the N discriminator values
\* in declaration order, N subtype entities (one per option, each in the entity
\* list once), and the output has exactly N union edges from the base, one to
\* each subtype.
C11_UnionCompleteness ==
    (hasOneRoot /\ isDiscriminatedUnion(oneRoot))
    => LET def == heap[oneRoot]
           N == Len(def.options)
           base == rootEntityName(oneRoot)
           names == entityNames(call.out.allEntities)
       IN  /\ call.out.parsed
           /\ Count(names, base) = 1
           /\ \A e \in 1..Len(call.out.allEntities) :
                 call.out.allEntities[e].name = base
                 => LET entity == call.out.allEntities[e]
                    IN  /\ entity.hasUnion
                        /\ Len(entity.fields) = 1
                        /\ entity.fields[1].name = def.discriminator
                        /\ entity.fields[1].validation =
                              <<"enum: " \o join([i \in 1..N |->
                                    declaredValue(def.options[i], def.discriminator)], ", ")>>
                        /\ Len(entity.subtypes) = N
                        /\ \A k \in 1..N :
                              /\ entity.subtypes[k].discriminatorValue =
                                    declaredValue(def.options[k], def.discriminator)
                              /\ Count(names, entity.subtypes[k].name) = 1
                              /\ \A j \in 1..N :
                                    entity.subtypes[j].name = entity.subtypes[k].name => j = k
                              /\ call.out.returned
                                    => Has(OutLines, unionEdge(base, entity.subtypes[k]))
                        /\ call.out.returned
                              => Cardinality(linesWithPrefix(OutLines,
                                    "    " \o base \o " " \o unionToken \o " ")) = N

C11_Witness ==
    /\ Generated /\ call.input = Single("Notice") /\ call.out.returned
    /\ Merged.diagramType = "er"
    /\ Len(call.out.allEntities[1].subtypes) = 3
    /\ call.out.allEntities[1].fields[1].validation = <<"enum: email, sms, push">>
    /\ Has(OutLines, erRelation("Notice", "||--||", "Notice_push", "push"))

\* the roots of the call
callRoots == schemasOf(call.input)

\* entity e of the result list is a placeholder: no fields, no subtypes
isPlaceholder(entity) == entity.fields = <<>> /\ ~entity.hasUnion

\* the positions of the placeholders named name in the result list
placeholdersNamed(entities, name) ==
    {e \in 1..Len(entities) : entities[e].name = name /\ isPlaceholder(entities[e])}

\* some field of the result list is flagged as a reference to name
isReferenced(entities, name) ==
    \E e \in 1..Len(entities) : \E f \in 1..Len(entities[e].fields) :
        entities[e].fields[f].isIdReference /\ entities[e].fields[f].referencedEntity = name

\* C12: when an object schema that reference fields of the call point at is
\* itself among the roots (once), before or after the roots that reference it,
\* the combined entity list has no placeholder with its name and contains that
\* name once.
C12_NoPlaceholderForRoot ==
    (Generated /\ call.out.parsed)
    => \A i \in 1..Len(callRoots) :
          (/\ heap[callRoots[i]].type = "object"
           /\ heap[callRoots[i]].shape # <<>>
           /\ isReferenced(call.out.allEntities, rootEntityName(callRoots[i]))
           /\ \A j \in 1..Len(callRoots) : callRoots[j] = callRoots[i] => j = i)
          => (/\ placeholdersNamed(call.out.allEntities, rootEntityName(callRoots[i])) = {}
              /\ Count(entityNames(call.out.allEntities), rootEntityName(callRoots[i])) = 1)

\* C13: the entity list of one call holds at most one placeholder per name.
C13_OnePlaceholderPerName ==
    (Generated /\ call.out.parsed)
    => \A e \in 1..Len(call.out.allEntities) :
          Cardinality(placeholdersNamed(call.out.allEntities,
                                        call.out.allEntities[e].name)) <= 1

\* the key field idRef was called with
calledKey(c) == shapeGet(heap[c.schema].shape, IF c.idFieldName = "" THEN "id" ELSE c.idFieldName)

\* C14: a successful idRef call makes a new node, a copy of the key field that
\* carries the tag of this call and nothing else, and leaves every node that
\* existed (the target, its key field, the nodes earlier calls returned) and its
\* metadata as they were; whatever idRef calls were made, the target and its
\* fields are as built, no field of the target carries reference metadata, and
\* the target renders alone with no reference field and no `ref:` label.
C14_IdRefLeavesTargetUnchanged ==
    /\ [][(call'.op = "idRef" /\ ~call'.out.threw)
          => (/\ call'.node \notin DOMAIN heap
              /\ DOMAIN heap' = DOMAIN heap \cup {call'.node}
              /\ DOMAIN registry' = DOMAIN heap'
              /\ \A n \in DOMAIN heap : heap'[n] = heap[n] /\ registry'[n] = registry[n]
              /\ heap'[call'.node] = heap[calledKey(call')]
              /\ registry'[call'.node] =
                    [NoMeta EXCEPT !.targetEntityName =
                        call'.out.value.meta.targetEntityName])]_vars
    /\ [](\A t \in KeptTargets :
            /\ heap[t] = Nodes[t] /\ registry[t] = Registry[t]
            /\ \A i \in 1..Len(heap[t].shape) :
                  /\ heap[heap[t].shape[i].value] = Nodes[heap[t].shape[i].value]
                  /\ registry[heap[t].shape[i].value].targetEntityName = "")
    /\ []((Generated /\ ~call.input.isArray /\ call.input.schema \in KeptTargets)
            => (/\ call.out.returned
                /\ \A e \in 1..Len(call.out.allEntities) :
                      \A f \in 1..Len(call.out.allEntities[e].fields) :
                          ~call.out.allEntities[e].fields[f].isIdReference
                /\ \A i \in 1..Len(OutLines) :
                      ~includes(OutLines[i], "ref: ") /\ ~includes(OutLines[i], "(ref)")))

C14_Witness ==
    /\ Generated /\ call.input = Single("User") /\ call.out.returned
    /\ Clones = {"clone1", "clone2"}
    /\ heap["clone1"] = heap["clone2"]
    /\ registry["clone1"].targetEntityName = "User"
    /\ registry["clone2"].targetEntityName = "MyCustomer"

\* C15: the target name idRef attaches is the entityName argument when one is
\* given, and otherwise the name the target schema is rendered under: its
\* declared name, or the name the builder falls back to when it declares none.
C15_TargetNameIsRenderedName ==
    (call.op = "idRef" /\ ~call.out.threw)
    => call.out.value.meta.targetEntityName =
          (IF call.entityName # "" THEN call.entityName
           ELSE nameOr(getEntityName(call.schema, ""), DEFAULT_OPTIONS.entityName))

\* the entities one root yields when it is parsed on its own
entitiesOfRoot(schema) ==
    parseSchemaToEntities(schema, Merged, "", 1,
                          [entities |-> <<>>, idReferences |-> <<>>]).value

\* the lines of an output that open an entity block (ER, class) or draw an
\* entity node (flowchart)
isEntityLine(line) ==
    CASE Merged.diagramType = "flowchart" ->
            endsWith(line, "\"]") /\ ~includes(line, ": ")
      [] OTHER -> endsWith(line, " {")

\* the lines of an output that show one field
isFieldLine(line) ==
    CASE Merged.diagramType = "flowchart" ->
            endsWith(line, "\"]") /\ includes(line, ": ") /\ ~includes(line, " --> ")
      [] OTHER -> startsWith(line, "        ")

\* the line that opens the block (draws the node) of an entity
entityLineOf(entity) ==
    CASE Merged.diagramType = "er" -> "    " \o entity.name \o " {"
      [] Merged.diagramType = "class" -> "    class " \o entity.name \o " {"
      [] OTHER -> "    " \o entity.name \o "[\"" \o entity.name \o "\"]"

\* the line that shows field f of an entity
fieldLineOf(entity, f) ==
    CASE Merged.diagramType = "er" -> erFieldLine(entity.fields[f], Merged)
      [] Merged.diagramType = "class" ->
            "        +" \o entity.fields[f].name \o ": " \o entity.fields[f].type
      [] OTHER -> "    " \o entity.name \o "_" \o entity.fields[f].name \o "[\""
                    \o entity.fields[f].name \o ": " \o entity.fields[f].type \o "\"]"

\* the entities a dialect draws: the ER dialect leaves out those with no field
drawn(entities) ==
    IF Merged.diagramType = "er" THEN SelectSeq(entities, LAMBDA e : e.fields # <<>>)
    ELSE entities

\* the field lines of the entities, in entity then field order
fieldLinesInOrder(entities) ==
    flatten([e \in 1..Len(entities) |->
                [f \in 1..Len(entities[e].fields) |-> fieldLineOf(entities[e], f)]])

\* C16: the entity list of a call is the concatenation, in the order of the
\* schema list, of the entities each root yields (the root's own entity first);
\* in every dialect the entity lines and the field lines of the output follow
\* that order (in ER and class output each entity line is followed by the lines
\* of its own fields).
C16_RootOrderKept ==
    (Generated /\ call.out.parsed)
    => (/\ call.out.allEntities =
              flatten([i \in 1..Len(callRoots) |-> entitiesOfRoot(callRoots[i])])
        /\ \A i \in 1..Len(callRoots) :
              heap[callRoots[i]].type = "object"
              => entitiesOfRoot(callRoots[i])[1].name = rootEntityName(callRoots[i])
        /\ call.out.returned
              => (/\ SelectSeq(OutLines, isEntityLine) =
                        [e \in 1..Len(drawn(call.out.allEntities)) |->
                            entityLineOf(drawn(call.out.allEntities)[e])]
                  /\ SelectSeq(OutLines, isFieldLine) =
                        fieldLinesInOrder(call.out.allEntities)
                  /\ Merged.diagramType \in {"er", "class"}
                        => SelectSeq(OutLines,
                                     LAMBDA l : isEntityLine(l) \/ isFieldLine(l)) =
                              flatten([e \in 1..Len(drawn(call.out.allEntities)) |->
                                  <<entityLineOf(drawn(call.out.allEntities)[e])>>
                                  \o fieldLinesInOrder(<<drawn(call.out.allEntities)[e]>>)])))

C16_Witness ==
    /\ Generated /\ call.input = List(<<"Order", "User">>) /\ call.out.returned
    /\ Merged.diagramType = "class"
    /\ entityNames(call.out.allEntities) = <<"Order", "User", "Product", "User">>
    /\ SelectSeq(OutLines, isEntityLine) =
          <<"    class Order {", "    class User {", "    class Product {", "    class User {">>

\* the first line of each dialect
headerOf(diagramType) ==
    CASE diagramType = "er" -> "erDiagram"
      [] diagramType = "class" -> "classDiagram"
      [] diagramType = "flowchart" -> "flowchart TD"

\* C17: a call with an empty schema list and a supported diagram type returns
\* exactly the header line of the dialect: no entity, no further line, no
\* trailing character.
C17_EmptyListHeaderOnly ==
    (Generated /\ call.input.isArray /\ call.input.schemas = <<>>
        /\ Merged.diagramType \in {"er", "class", "flowchart"})
    => (/\ call.out.returned
        /\ call.out.allEntities = <<>>
        /\ call.out.text = headerOf(Merged.diagramType))

C17_Witness ==
    /\ Generated /\ call.input = List(<<>>) /\ call.options = [diagramType |-> "flowchart"]
    /\ call.out.returned /\ call.out.text = "flowchart TD"

\* C18: with includeOptional = false the output shows no field whose isOptional
\* is true; with includeOptional = true it shows every field of every entity the
\* dialect draws.
C18_IncludeOptionalHidesOptionalFields ==
    (Generated /\ call.out.returned)
    => \A e \in 1..Len(call.out.allEntities) :
          \A f \in 1..Len(call.out.allEntities[e].fields) :
              IF Merged.includeOptional
              THEN Has(OutLines, fieldLineOf(call.out.allEntities[e], f))
              ELSE call.out.allEntities[e].fields[f].isOptional
                   => ~Has(OutLines, fieldLineOf(call.out.allEntities[e], f))

\* the target of the reference tag a field node carries directly, under one
\* Optional layer, or on the element of an Array ("" when it carries none)
tagTargetOf(node) ==
    IF isTagged(node) THEN registry[node].targetEntityName
    ELSE IF heap[node].type \in {"optional", "array"} /\ isTagged(heap[node].inner)
    THEN registry[heap[node].inner].targetEntityName
    ELSE ""

\* the name of the entity built from an object found under key of a shape
nestedEntityName(schema, key) == nameOr(getEntityName(schema, key), Merged.entityName)

\* the object shapes a root brings into the graph, each with the name of its
\* entity: the root object and the objects nested one level below it, or the
\* options of a discriminated union root
shapesOfRoot(root) ==
    IF heap[root].type = "object"
    THEN {[name |-> rootEntityName(root), schema |-> root, place |-> "root"]}
         \cup {[name |-> nestedEntityName(peelWrappers(heap[root].shape[i].value),
                                          heap[root].shape[i].key),
                schema |-> peelWrappers(heap[root].shape[i].value),
                place |-> "nested"] :
               i \in {j \in 1..Len(heap[root].shape) :
                        heap[peelWrappers(heap[root].shape[j].value)].type = "object"}}
    ELSE IF isDiscriminatedUnion(root)
    THEN {[name |-> optionNameOf(getEntityName(heap[root].options[k], ""),
                                 rootEntityName(root),
                                 declaredValue(heap[root].options[k],
                                               heap[root].discriminator)),
           schema |-> heap[root].options[k],
           place |-> "option"] : k \in 1..Len(heap[root].options)}
    ELSE {}

\* the shapes of all the roots of the call
shapesOfCall == UNION {shapesOfRoot(callRoots[i]) : i \in 1..Len(callRoots)}

\* some entity called entityName has field key flagged as a reference to target
flaggedIn(entities, entityName, key, target) ==
    \E e \in 1..Len(entities) :
        /\ entities[e].name = entityName
        /\ \E f \in 1..Len(entities[e].fields) :
              /\ entities[e].fields[f].name = key
              /\ entities[e].fields[f].isIdReference
              /\ entities[e].fields[f].referencedEntity = target

\* C19: every field of a root object, of a nested object or of a union option
\* that carries a reference tag (directly, under one Optional layer or on the
\* element of an Array) is flagged as a reference to the tag's target in the
\* entity built from that shape, whatever the type of the key.
C19_TaggedFieldsFlagged ==
    (Generated /\ call.out.parsed)
    => \A sh \in shapesOfCall :
          \A i \in 1..Len(heap[sh.schema].shape) :
              tagTargetOf(heap[sh.schema].shape[i].value) # ""
              => flaggedIn(call.out.allEntities, sh.name, heap[sh.schema].shape[i].key,
                           tagTargetOf(heap[sh.schema].shape[i].value))

RECURSIVE coreOf(_)
\* the core type of a field: what is left once every Optional, Nullable,
\* Defaulted, Piped and (resolvable) Deferred wrapper is peeled
coreOf(schema) ==
    IF heap[schema].type \in {"optional", "nullable", "default", "pipe"}
    THEN coreOf(heap[schema].inner)
    ELSE IF heap[schema].type = "lazy" /\ ~heap[schema].getterThrows
    THEN coreOf(heap[schema].inner)
    ELSE schema

\* C20: every object or discriminated union that is the core type of a field of
\* a root object, of a nested object or of a union option has an entity in the
\* result list, under the name the builder gives it for that field.
C20_CoreTypesHaveEntities ==
    (Generated /\ call.out.parsed)
    => \A sh \in shapesOfCall :
          \A i \in 1..Len(heap[sh.schema].shape) :
              LET core == coreOf(heap[sh.schema].shape[i].value)
              IN  (heap[core].type = "object" \/ isDiscriminatedUnion(core))
                  => findEntity(call.out.allEntities,
                                nestedEntityName(core, heap[sh.schema].shape[i].key))

\* the type of field key of the entity called entityName ("" when there is none)
shownType(entities, entityName, key) ==
    IF \E e \in 1..Len(entities) :
          entities[e].name = entityName
          /\ \E f \in 1..Len(entities[e].fields) : entities[e].fields[f].name = key
    THEN LET e == CHOOSE e \in 1..Len(entities) :
                      entities[e].name = entityName
                      /\ \E f \in 1..Len(entities[e].fields) : entities[e].fields[f].name = key
             f == CHOOSE f \in 1..Len(entities[e].fields) : entities[e].fields[f].name = key
         IN  entities[e].fields[f].type
    ELSE ""

\* C21: for every field of a built shape whose core type is an object or a
\* discriminated union for which the builder made an entity, the display type
\* of the field is the name of that entity.
C21_DisplayTypeIsEntityName ==
    (Generated /\ call.out.parsed)
    => \A sh \in shapesOfCall :
          \A i \in 1..Len(heap[sh.schema].shape) :
              LET key == heap[sh.schema].shape[i].key
                  core == coreOf(heap[sh.schema].shape[i].value)
              IN  (/\ heap[core].type = "object" \/ isDiscriminatedUnion(core)
                   /\ findEntity(call.out.allEntities, nestedEntityName(core, key))
                   /\ shownType(call.out.allEntities, sh.name, key) # "")
                  => shownType(call.out.allEntities, sh.name, key)
                        = nestedEntityName(core, key)

RECURSIVE hasOptionalLayer(_)
\* some Optional or Defaulted layer occurs in the stack of Optional, Nullable,
\* Defaulted and Piped wrappers on top of the node
hasOptionalLayer(schema) ==
    IF heap[schema].type \in {"optional", "default"} THEN TRUE
    ELSE IF heap[schema].type \in {"nullable", "pipe"} THEN hasOptionalLayer(heap[schema].inner)
    ELSE FALSE

RECURSIVE underWrappers(_)
\* the node under the stack of Optional, Nullable, Defaulted and Piped wrappers
underWrappers(schema) ==
    IF heap[schema].type \in {"optional", "default", "nullable", "pipe"}
    THEN underWrappers(heap[schema].inner) ELSE schema

\* the isOptional of field key of the entity called entityName
shownOptional(entities, entityName, key) ==
    \E e \in 1..Len(entities) :
        /\ entities[e].name = entityName
        /\ \E f \in 1..Len(entities[e].fields) :
              entities[e].fields[f].name = key /\ entities[e].fields[f].isOptional

\* C22: a field (whose wrappers do not hide a deferred node) is optional exactly
\* when an Optional or Defaulted layer occurs somewhere in its wrapper stack,
\* also under Nullable or Piped layers.
C22_OptionalAnywhereInStack ==
    (Generated /\ call.out.parsed)
    => \A sh \in shapesOfCall :
          \A i \in 1..Len(heap[sh.schema].shape) :
              (/\ heap[underWrappers(heap[sh.schema].shape[i].value)].type # "lazy"
               /\ shownType(call.out.allEntities, sh.name, heap[sh.schema].shape[i].key) # "")
              => (shownOptional(call.out.allEntities, sh.name, heap[sh.schema].shape[i].key)
                    <=> hasOptionalLayer(heap[sh.schema].shape[i].value))

\* field i of the root is a deferred node whose getter throws
isUnresolvable(node) ==
    heap[underWrappers(node)].type = "lazy" /\ heap[underWrappers(node)].getterThrows

\* C23: when the getter of a deferred field of the root throws, the call still
\* returns a diagram: the entity of the root is built with all its fields, and
\* the deferred field has display type "unknown".
C23_UnresolvableFieldRecovered ==
    (hasOneRoot /\ heap[oneRoot].type = "object"
        /\ Merged.diagramType \in {"er", "class", "flowchart"}
        /\ \E i \in 1..Len(heap[oneRoot].shape) : isUnresolvable(heap[oneRoot].shape[i].value))
    => (/\ call.out.returned
        /\ \A i \in 1..Len(heap[oneRoot].shape) :
              /\ shownType(call.out.allEntities, rootEntityName(oneRoot),
                           heap[oneRoot].shape[i].key) # ""
              /\ isUnresolvable(heap[oneRoot].shape[i].value)
                 => shownType(call.out.allEntities, rootEntityName(oneRoot),
                              heap[oneRoot].shape[i].key) = "unknown")

\* the names a relationship of the entity list can end at
endpointNames(entities) ==
    {entities[e].name : e \in 1..Len(entities)}
    \cup UNION {{entities[e].fields[f].referencedEntity : f \in 1..Len(entities[e].fields)} :
                e \in 1..Len(entities)}

\* the node of a field in flowchart output
flowFieldNode(entity, field) ==
    entity.name \o "_" \o field.name \o "[\"" \o field.name \o ": " \o field.type \o "\"]"

\* kind is drawn from entity through field to target, in ER / class / flowchart lines
\* ("contains" is an embedded object or an array of the entity itself, "keyed" a
\* reference by key)
erDraws(lines, entity, field, target, kind) ==
    \E tok \in (IF kind = "contains" THEN {"||--||", "||--o{"} ELSE {"}o--||", "}o--o{"}) :
        Has(lines, erRelation(entity.name, tok, target, field.name))

classDraws(lines, entity, field, target, kind) ==
    Has(lines, "    " \o entity.name
                 \o (IF kind = "contains" THEN " *-- " ELSE " --> ")
                 \o target \o " : " \o field.name
                 \o (IF kind = "contains" THEN "" ELSE " (ref)"))

flowDraws(lines, entity, field, target, kind) ==
    Has(lines, "    " \o flowFieldNode(entity, field)
                 \o (IF kind = "contains" THEN " --> " ELSE " -.-> ") \o target)

\* the three outputs draw the same field and union relationships of the entities
sameRelationships(entities, er, class, flow) ==
    /\ \A e \in 1..Len(entities) : \A f \in 1..Len(entities[e].fields) :
          \A target \in endpointNames(entities) : \A kind \in {"contains", "keyed"} :
              /\ erDraws(er, entities[e], entities[e].fields[f], target, kind)
                    <=> classDraws(class, entities[e], entities[e].fields[f], target, kind)
              /\ classDraws(class, entities[e], entities[e].fields[f], target, kind)
                    <=> flowDraws(flow, entities[e], entities[e].fields[f], target, kind)
    /\ \A e \in 1..Len(entities) : \A target \in endpointNames(entities) :
          /\ (\E k \in 1..Len(entities[e].subtypes) :
                 /\ entities[e].subtypes[k].name = target
                 /\ Has(er, erRelation(entities[e].name, "||--||", target,
                                       entities[e].subtypes[k].discriminatorValue)))
             <=> (\E k \in 1..Len(entities[e].subtypes) :
                     /\ entities[e].subtypes[k].name = target
                     /\ Has(class, "    " \o entities[e].name \o " <|-- " \o target \o " : "
                                     \o entities[e].subtypes[k].discriminatorValue))
          /\ (\E k \in 1..Len(entities[e].subtypes) :
                 /\ entities[e].subtypes[k].name = target
                 /\ Has(class, "    " \o entities[e].name \o " <|-- " \o target \o " : "
                                 \o entities[e].subtypes[k].discriminatorValue))
             <=> Has(flow, "    " \o entities[e].name \o " -.-> " \o target)
    /\ Cardinality({i \in 1..Len(er) : \E tok \in ErTokens : includes(er[i], " " \o tok \o " ")})
          = Cardinality({i \in 1..Len(class) :
                \E tok \in {" *-- ", " --> ", " <|-- "} : includes(class[i], tok)})
    /\ Cardinality({i \in 1..Len(class) :
                \E tok \in {" *-- ", " --> ", " <|-- "} : includes(class[i], tok)})
          = Cardinality({i \in 1..Len(flow) :
                includes(flow[i], " -.-> ") \/ includes(flow[i], "\"] --> ")})

\* C24: for the entity list of a call, the ER, class and flowchart emitters draw
\* the same relationships: the same fields as embedded objects or arrays of the
\* entity itself, the same fields as keyed references, the same union edges, to
\* the same targets, and the same number of relationship lines.
C24_DialectsAgreeOnRelationships ==
    (Generated /\ call.out.parsed)
    => sameRelationships(call.out.allEntities,
                         erLines(call.out.allEntities, Merged),
                         classLines(call.out.allEntities),
                         flowchartLines(call.out.allEntities))

C24_Witness ==
    /\ Generated /\ call.input = Single("Shipment") /\ call.out.returned
    /\ Merged.diagramType = "flowchart"
    /\ Has(OutLines, "    Shipment_address[\"address: Address\"] --> Address")
    /\ Has(OutLines, "    Address_courierId[\"courierId: string\"] -.-> User")
    /\ Has(erLines(call.out.allEntities, Merged),
           erRelation("Address", "}o--||", "User", "courierId"))
    /\ Has(classLines(call.out.allEntities), "    Shipment *-- Address : address")

\* C25: once the emitter of a call has run, the entity list is what the builder
\* produced, every validations list included, and rendering it again gives the
\* same text.
C25_RenderingLeavesEntities ==
    (Generated /\ call.out.returned)
    => (/\ entitiesAfterRender(call.out.allEntities, Merged) = call.out.allEntities
        /\ render(entitiesAfterRender(call.out.allEntities, Merged), Merged).value
              = call.out.text)

\* the blocks of the entity list in ER lines and in class lines: a block per
\* entity with fields and none for a placeholder, which is still the target of
\* a relationship line (ER); a block per entity, empty for a placeholder (class)
blocksMatch(entities, er, class) ==
    \A e \in 1..Len(entities) :
        /\ Count(er, "    " \o entities[e].name \o " {") =
              Cardinality({d \in 1..Len(entities) :
                  entities[d].name = entities[e].name /\ entities[d].fields # <<>>})
        /\ Count(class, "    class " \o entities[e].name \o " {") =
              Count(entityNames(entities), entities[e].name)
        /\ isPlaceholder(entities[e])
              => (/\ \E i \in 1..Len(er) : \E tok \in ErTokens :
                        includes(er[i], " " \o tok \o " " \o entities[e].name \o " : ")
                  /\ \E i \in 1..(Len(class) - 1) :
                        /\ class[i] = "    class " \o entities[e].name \o " {"
                        /\ class[i + 1] = "    }")

\* C26: for the entity list of a call, the ER output has one block per entity
\* that has a field and none for a placeholder, which is the endpoint of a
\* relationship line; the class output has one class block per entity, with an
\* empty body for a placeholder.
C26_BlocksPerEntity ==
    (Generated /\ call.out.parsed)
    => (/\ blocksMatch(call.out.allEntities, erLines(call.out.allEntities, Merged),
                       classLines(call.out.allEntities))
        /\ Cardinality(linesWithPrefix(erLines(call.out.allEntities, Merged), "    }"))
              = Len(SelectSeq(call.out.allEntities, LAMBDA e : e.fields # <<>>))
        /\ Cardinality(linesWithPrefix(classLines(call.out.allEntities), "    class "))
              = Len(call.out.allEntities))

C26_Witness ==
    /\ Generated /\ call.input = Single("Order") /\ call.out.returned
    /\ Merged.diagramType = "er"
    /\ entityNames(call.out.allEntities) = <<"Order", "User", "Product">>
    /\ ~Has(OutLines, "    User {")
    /\ Has(OutLines, erRelation("Order", "}o--||", "User", "customerId"))
    /\ Has(classLines(call.out.allEntities), "    class User {")

\* the validations of field key of the entity called entityName
shownValidation(entities, entityName, key) ==
    LET e == CHOOSE e \in 1..Len(entities) :
                 entities[e].name = entityName
                 /\ \E f \in 1..Len(entities[e].fields) : entities[e].fields[f].name = key
        f == CHOOSE f \in 1..Len(entities[e].fields) : entities[e].fields[f].name = key
    IN  entities[e].fields[f].validation

\* C27: a string field declared with a minimum length N carries the label
\* `min: N`, and one declared with a maximum length N the label `max: N`, for
\* every N >= 0.
C27_LengthLabelsExact ==
    (Generated /\ call.out.parsed)
    => \A sh \in shapesOfCall :
          \A i \in 1..Len(heap[sh.schema].shape) :
              LET key == heap[sh.schema].shape[i].key
                  def == heap[underWrappers(heap[sh.schema].shape[i].value)]
              IN  (def.type = "string" /\ shownType(call.out.allEntities, sh.name, key) # "")
                  => (/\ def.hasMinLength
                         => Has(shownValidation(call.out.allEntities, sh.name, key),
                                "min: " \o ToString(def.minLength))
                      /\ def.hasMaxLength
                         => Has(shownValidation(call.out.allEntities, sh.name, key),
                                "max: " \o ToString(def.maxLength)))

\* is the line of ER / class / flowchart output a relationship line
isErRelationLine(line) == \E tok \in ErTokens : includes(line, " " \o tok \o " ")

isClassRelationLine(line) ==
    \E tok \in {" *-- ", " --> ", " <|-- "} : includes(line, tok)

isFlowRelationLine(line) == includes(line, " -.-> ") \/ includes(line, "\"] --> ")

\* the line runs from entity `from` to entity `to` (in a flowchart, from the
\* entity itself for a union edge and from the node of one of its fields for a
\* field's relationship)
erEndpoints(line, from, to) ==
    \E tok \in ErTokens :
        startsWith(line, "    " \o from \o " " \o tok \o " " \o to \o " : \"")

classEndpoints(line, from, to) ==
    \E tok \in {" *-- ", " --> ", " <|-- "} :
        startsWith(line, "    " \o from \o tok \o to \o " : ")

flowEndpoints(line, entity, to) ==
    \/ line = "    " \o entity.name \o " -.-> " \o to
    \/ \E f \in 1..Len(entity.fields) : \E arrow \in {" --> ", " -.-> "} :
          line = "    " \o flowFieldNode(entity, entity.fields[f]) \o arrow \o to

\* every relationship line of the three outputs runs between entities of the list
endpointsAreEntities(entities, er, class, flow) ==
    /\ \A i \in 1..Len(er) :
          isErRelationLine(er[i])
          => \E a \in 1..Len(entities), b \in 1..Len(entities) :
                erEndpoints(er[i], entities[a].name, entities[b].name)
    /\ \A i \in 1..Len(class) :
          isClassRelationLine(class[i])
          => \E a \in 1..Len(entities), b \in 1..Len(entities) :
                classEndpoints(class[i], entities[a].name, entities[b].name)
    /\ \A i \in 1..Len(flow) :
          isFlowRelationLine(flow[i])
          => \E a \in 1..Len(entities), b \in 1..Len(entities) :
                flowEndpoints(flow[i], entities[a], entities[b].name)

\* C28: in the ER, class and flowchart output of the entity list of a call, every
\* relationship line starts at an entity of the list (in a flowchart, at the
\* entity or at the node of one of its fields) and ends at the name of an entity
\* of the list, real or placeholder; the output the call returned is one of them.
C28_EndpointsAreEntities ==
    (Generated /\ call.out.parsed)
    => endpointsAreEntities(call.out.allEntities,
                            erLines(call.out.allEntities, Merged),
                            classLines(call.out.allEntities),
                            flowchartLines(call.out.allEntities))

C28_Witness ==
    /\ Generated /\ call.input = Single("Order") /\ call.out.returned
    /\ Merged.diagramType = "er"
    /\ \E i \in 1..Len(OutLines) : erEndpoints(OutLines[i], "Order", "User")
    /\ \E e \in 1..Len(call.out.allEntities) :
          call.out.allEntities[e].name = "User" /\ isPlaceholder(call.out.allEntities[e])
    /\ \E i \in 1..Len(flowchartLines(call.out.allEntities)) :
          /\ isFlowRelationLine(flowchartLines(call.out.allEntities)[i])
          /\ endsWith(flowchartLines(call.out.allEntities)[i], " -.-> User")

\* the entity names some node of the registry is tagged with
targetNames == {registry[n].targetEntityName : n \in DOMAIN registry} \ {""}

\* C29: a field of the entity list of a call carries the label `ref: X` exactly
\* when it is flagged as an ID reference with referencedEntity = X.
C29_RefLabelIffFlagged ==
    (Generated /\ call.out.parsed)
    => \A e \in 1..Len(call.out.allEntities) :
          \A f \in 1..Len(call.out.allEntities[e].fields) :
              \A X \in targetNames :
                  Has(call.out.allEntities[e].fields[f].validation, "ref: " \o X)
                  <=> (/\ call.out.allEntities[e].fields[f].isIdReference
                       /\ call.out.allEntities[e].fields[f].referencedEntity = X)

\* a root the builder has no branch for: a valid schema that is not an object, a
\* discriminated union or a lazy node
isOtherRoot(schema) ==
    /\ heap[schema].type \notin {"<null>", "object", "lazy"}
    /\ ~isDiscriminatedUnion(schema)

isEntityRoot(schema) == ~isOtherRoot(schema)

\* C30: a root that is a valid schema but not an object, a discriminated union or
\* a lazy node is parsed without error into no entity, the call returns what it
\* returns without that root, and a call with that root alone returns exactly
\* the header line of the dialect.
C30_OtherRootsContributeNothing ==
    (Generated /\ \E i \in 1..Len(callRoots) : isOtherRoot(callRoots[i]))
    => (/\ \A i \in 1..Len(callRoots) :
              isOtherRoot(callRoots[i])
              => parseSchemaToEntities(callRoots[i], Merged, "", 1,
                                       [entities |-> <<>>, idReferences |-> <<>>])
                    = Return(<<>>)
        /\ call.out.returned
              = generateMermaidDiagram(List(SelectSeq(callRoots, isEntityRoot)),
                                       call.options, Left).returned
        /\ call.out.text
              = generateMermaidDiagram(List(SelectSeq(callRoots, isEntityRoot)),
                                       call.options, Left).text
        /\ (Len(callRoots) = 1 /\ Merged.diagramType \in {"er", "class", "flowchart"})
              => (/\ call.out.returned
                  /\ call.out.allEntities = <<>>
                  /\ call.out.text = headerOf(Merged.diagramType)))

C30_Witness ==
    /\ Generated /\ call.input = Single("opt_Contact") /\ call.out.returned
    /\ heap["opt_Contact"].type = "optional" /\ heap[heap["opt_Contact"].inner].type = "object"
    /\ Merged.diagramType = "class" /\ call.out.text = "classDiagram"

====
